---------------------------- MODULE Spec2Model ----------------------------
(***************************************************************************)
(* A model of the log ingestion and aggregation engine of the session      *)
(* history viewer (src-tauri): the line scanner, the record normaliser,    *)
(* the token-usage extractor, the edit reconstructor, the tree walking     *)
(* commands, the session and daily statistics and restore_file.            *)
(*                                                                         *)
(* Conventions.  A Rust Option is a sequence of length at most one: None   *)
(* is << >> and Some(x) is <<x>>.  A Rust String is a sequence of          *)
(* characters (one-character TLA+ strings); character order is given by    *)
(* CharCode.  Byte offsets are 0-based as in the source, so the byte at    *)
(* offset i of a buffer b is b[i + 1].                                     *)
(*                                                                         *)
(* The module holds several specifications over the same variables, one    *)
(* per component; each one's Init draws that component's inputs from       *)
(* bounded sets and leaves the other components' variables idle.           *)
(***************************************************************************)
EXTENDS Integers, Sequences, FiniteSets, TLC

VARIABLES
    pc,             \* position of the running operation
    data,           \* the input of a function: find_line_ranges' byte buffer, the
                    \* JSON object of a line, the timestamps of a session
    start,          \* find_line_ranges: `start`
    memchr_pos,     \* find_line_ranges: position of the memchr iterator
    ranges,         \* find_line_ranges: `ranges`
    tree,           \* the files a command reads or writes: the session files
                    \* under the walked directory, their messages per date,
                    \* the directory of restore_file
    args,           \* the arguments of the running command
    windows,        \* cfg(target_os = "windows") of the build
    session_files,  \* get_recent_edits: `session_files` (enumeration order)
    file_results,   \* get_recent_edits: per-file results of the parallel pass
    result,         \* the value a command returns
    log_entry,      \* one RawLogEntry
    now,            \* Utc::now().to_rfc3339() at the time of the call
    new_uuid,       \* Uuid::new_v4().to_string() at the time of the call
    message,        \* one ClaudeMessage, or the messages of one session
    output          \* the value a function returns

vars == <<pc, data, start, memchr_pos, ranges, tree, args, windows, session_files,
          file_results, result, log_entry, now, new_uuid, message, output>>

scanVars == <<data, start, memchr_pos, ranges>>
walkVars == <<tree, args, windows, session_files, file_results, result>>
entryVars == <<log_entry, now, new_uuid, message, output>>

Idle == << >>

\* The variables of the components a specification does not exercise.
IdleScan == data = Idle /\ start = Idle /\ memchr_pos = Idle /\ ranges = Idle
IdleWalk ==
    /\ tree = Idle /\ args = Idle /\ windows = Idle /\ session_files = Idle
    /\ file_results = Idle /\ result = Idle
IdleEntry ==
    /\ log_entry = Idle /\ now = Idle /\ new_uuid = Idle
    /\ message = Idle /\ output = Idle

-----------------------------------------------------------------------------
(* Options, sequences, strings *)

None == << >>
Some(x) == <<x>>
IsSome(o) == Len(o) = 1
IsNone(o) == Len(o) = 0
Unwrap(o) == o[1]
UnwrapOr(o, d) == IF Len(o) = 1 THEN o[1] ELSE d
Option(S) == {None} \cup {Some(x) : x \in S}

Min(a, b) == IF a <= b THEN a ELSE b
Max(a, b) == IF a >= b THEN a ELSE b

\* All sequences over S of length at most n.
SeqsUpTo(S, n) == UNION {[1..k -> S] : k \in 0..n}

Range(s) == {s[i] : i \in 1..Len(s)}

\* The orders in which the elements of a finite index set can be listed.
Orders(S) == {p \in [1..Cardinality(S) -> S] : \A i, j \in 1..Cardinality(S) : i /= j => p[i] /= p[j]}

\* Character codes (ASCII) of the characters the model's strings are made of:
\* str and String compare byte-wise.
CharCode ==
    ("\n" :> 10) @@ ("/" :> 47) @@ ("0" :> 48) @@ ("1" :> 49) @@ ("2" :> 50) @@
    ("+" :> 43) @@ ("-" :> 45) @@ ("5" :> 53) @@ ("6" :> 54) @@ (":" :> 58) @@
    ("P" :> 80) @@ ("T" :> 84) @@ ("Z" :> 90) @@ ("a" :> 97) @@ ("b" :> 98) @@ ("c" :> 99) @@ ("p" :> 112) @@
    ("q" :> 113) @@ ("x" :> 120) @@ ("y" :> 121)

\* Ord::cmp on strings: lexicographic on the bytes; a proper prefix is smaller.
RECURSIVE StrLess(_, _)
StrLess(a, b) ==
    IF b = << >> THEN FALSE
    ELSE IF a = << >> THEN TRUE
    ELSE IF a[1] /= b[1] THEN CharCode[a[1]] < CharCode[b[1]]
    ELSE StrLess(Tail(a), Tail(b))

\* char::to_lowercase on the module's (ASCII) characters.
ToLowerChar(c) == IF c = "P" THEN "p" ELSE IF c = "T" THEN "t" ELSE IF c = "Z" THEN "z" ELSE c

\* str::to_lowercase
ToLowercase(s) == [i \in 1..Len(s) |-> ToLowerChar(s[i])]

\* str::starts_with
StartsWith(s, prefix) ==
    /\ Len(prefix) <= Len(s)
    /\ SubSeq(s, 1, Len(prefix)) = prefix

\* The 1-based positions at which pat occurs in s (the empty pattern occurs at
\* every boundary).
MatchPositions(s, pat) ==
    {i \in 1..(Len(s) - Len(pat) + 1) : SubSeq(s, i, i + Len(pat) - 1) = pat}

\* str::replacen(pat, to, count): the first `count` non-overlapping matches of
\* pat, from the left, replaced by `to`.
RECURSIVE Replacen(_, _, _, _)
Replacen(s, pat, to, count) ==
    IF count = 0 \/ MatchPositions(s, pat) = {} THEN s
    ELSE LET i == CHOOSE p \in MatchPositions(s, pat) : \A q \in MatchPositions(s, pat) : p <= q
         IN  IF pat = << >>
             THEN to \o (IF s = << >> THEN << >>
                         ELSE <<s[1]>> \o Replacen(Tail(s), pat, to, count - 1))
             ELSE SubSeq(s, 1, i - 1) \o to
                    \o Replacen(SubSeq(s, i + Len(pat), Len(s)), pat, to, count - 1)

\* str::lines().count(): the pieces between newlines; a final empty piece does
\* not count.
LinesCount(s) ==
    Cardinality({i \in 1..Len(s) : s[i] = "\n"})
        + (IF s /= << >> /\ s[Len(s)] /= "\n" THEN 1 ELSE 0)

-----------------------------------------------------------------------------
(* serde_json::Value, as far as the commands inspect it *)

JNum(n) == [kind |-> "number", num |-> n]
JStr(s) == [kind |-> "string", str |-> s]
JArr(items) == [kind |-> "array", items |-> items]
JObj(fields) == [kind |-> "object", fields |-> fields]
NoFields == << >>

\* Value::get(key): a member of an object; None on anything else.
Get(v, key) ==
    IF v.kind = "object" /\ key \in DOMAIN v.fields THEN Some(v.fields[key]) ELSE None

\* Option<&Value>::and_then(|v| v.get(key))
GetIn(o, key) == IF IsSome(o) THEN Get(Unwrap(o), key) ELSE None

\* Option<&Value>::and_then(|v| v.as_str())
AsStr(o) == IF IsSome(o) /\ Unwrap(o).kind = "string" THEN Some(Unwrap(o).str) ELSE None

\* Option<&Value>::and_then(|v| v.as_array())
AsArray(o) == IF IsSome(o) /\ Unwrap(o).kind = "array" THEN Some(Unwrap(o).items) ELSE None

-----------------------------------------------------------------------------
(* models/message.rs: RawLogEntry, as far as the commands read it *)

\* A record with only its type: every Option field absent.
BlankEntry(type) ==
    [uuid |-> None, session_id |-> None, timestamp |-> None, message_type |-> type,
     message |-> None, tool_use |-> None, tool_use_result |-> None, cwd |-> None]

\* A line of a session file: bytes that parse as a RawLogEntry, bytes that are
\* text but do not parse, or bytes that are not valid UTF-8.
EntryLine(e) == [kind |-> "entry", entry |-> e]
BadJsonLine == [kind |-> "badjson"]
NonUtf8Line == [kind |-> "nonutf8"]

\* A session file: whether fs::File::open (and the read) succeeds, and its
\* non-empty lines in file order.
SessionFile(readable, lines) == [readable |-> readable, lines |-> lines]

\* simd_json::serde::from_slice::<RawLogEntry>(line bytes)
FromSlice(line) == IF line.kind = "entry" THEN Some(line.entry) ELSE None


-----------------------------------------------------------------------------
(* Line scanner: utils.rs, find_line_ranges *)

NL == 10

\* The byte values a buffer is drawn from: newline, an ASCII letter, a byte
\* that is not valid UTF-8.
Bytes == {NL, 97, 255}

MaxBuf == 4

\* memchr_iter(b'\n', data): the offset of the next newline at or after `from`, if any.
MemchrNext(buf, from) ==
    LET hits == {p \in from..(Len(buf) - 1) : buf[p + 1] = NL}
    IN  IF hits = {} THEN None ELSE Some(CHOOSE p \in hits : \A q \in hits : p <= q)

InitScan ==
    /\ pc = "scan"
    /\ data \in SeqsUpTo(Bytes, MaxBuf)
    /\ start = 0
    /\ memchr_pos = 0
    /\ ranges = << >>
    /\ IdleWalk
    /\ IdleEntry

\* A scanner that also pushes the zero-length range of an empty line.
PushesRange_KeepsEmpty(s, pos) == pos >= s

\* The condition under which the loop body pushes a range.
PushesRange(s, pos) == pos > s

\* One iteration of `for pos in memchr_iter(b'\n', data)`.
ScanNewline ==
    /\ pc = "scan"
    /\ IsSome(MemchrNext(data, memchr_pos))
    /\ LET pos == Unwrap(MemchrNext(data, memchr_pos))
       IN  /\ ranges' = IF PushesRange(start, pos) THEN Append(ranges, <<start, pos>>) ELSE ranges
           /\ start' = pos + 1
           /\ memchr_pos' = pos + 1
    /\ UNCHANGED <<pc, data, walkVars, entryVars>>

\* The iterator is exhausted: the last line without trailing newline, and the return.
ScanTail ==
    /\ pc = "scan"
    /\ IsNone(MemchrNext(data, memchr_pos))
    /\ ranges' = IF start < Len(data) THEN Append(ranges, <<start, Len(data)>>) ELSE ranges
    /\ pc' = "done"
    /\ UNCHANGED <<data, start, memchr_pos, walkVars, entryVars>>

NextScan == ScanNewline \/ ScanTail

SpecScan == InitScan /\ [][NextScan]_vars

\* The maximal non-empty runs of non-newline bytes of buf, as half-open offset pairs.
MaximalRuns(buf) ==
    {r \in (0..Len(buf)) \X (0..Len(buf)) :
        /\ r[1] < r[2]
        /\ \A i \in r[1]..(r[2] - 1) : buf[i + 1] /= NL
        /\ r[1] = 0 \/ buf[r[1]] = NL
        /\ r[2] = Len(buf) \/ buf[r[2] + 1] = NL}

\* C1: find_line_ranges returns exactly the maximal non-empty runs of non-newline
\* bytes, in ascending order: no empty range, no newline inside a range, ranges
\* pairwise disjoint, every non-newline byte in exactly one range, and the final
\* unterminated run included.
C1_LineRanges ==
    pc = "done" =>
        /\ Range(ranges) = MaximalRuns(data)
        /\ \A i \in 1..Len(ranges) :
              /\ ranges[i][1] < ranges[i][2]
              /\ \A k \in ranges[i][1]..(ranges[i][2] - 1) : data[k + 1] /= NL
        /\ \A i, j \in 1..Len(ranges) : i < j => ranges[i][2] <= ranges[j][1]
        /\ \A k \in 0..(Len(data) - 1) :
              data[k + 1] /= NL =>
                Cardinality({i \in 1..Len(ranges) : ranges[i][1] <= k /\ k < ranges[i][2]}) = 1
        /\ (data /= << >> /\ data[Len(data)] /= NL) =>
              (ranges /= << >> /\ ranges[Len(ranges)][2] = Len(data))

\* An empty line between two lines, the last one unterminated: b"a\n\na".
C1_Witness ==
    /\ pc = "done"
    /\ data = <<97, NL, NL, 97>>
    /\ ranges = <<<<0, 1>>, <<3, 4>>>>

-----------------------------------------------------------------------------
(* Edit reconstructor: commands/session/edits.rs, process_session_file_for_edits *)

RecentFileEdit(file_path, timestamp, session_id, operation_type, content, original, lines_added, lines_removed, cwd) ==
    [file_path |-> file_path, timestamp |-> timestamp, session_id |-> session_id,
     operation_type |-> operation_type, content_after_change |-> content,
     original_content |-> original, lines_added |-> lines_added,
     lines_removed |-> lines_removed, cwd |-> cwd]

\* A replay step that replaces every occurrence of old_str.
ReplaceOld_All(content, old_str, new_str) == Replacen(content, old_str, new_str, Len(content) + 1)

\* content.replacen(old_str, new_str, 1)
ReplaceOld(content, old_str, new_str) == Replacen(content, old_str, new_str, 1)

\* The loop over edits_arr: the running content and line counts after the
\* entries from position i on; an entry without both strings is passed over.
RECURSIVE ReplayEdits(_, _, _)
ReplayEdits(acc, edits_arr, i) ==
    IF i > Len(edits_arr) THEN acc
    ELSE LET old_str == AsStr(Get(edits_arr[i], "old_string"))
             new_str == AsStr(Get(edits_arr[i], "new_string"))
         IN  IF IsSome(old_str) /\ IsSome(new_str)
             THEN ReplayEdits(
                    [content |-> ReplaceOld(acc.content, Unwrap(old_str), Unwrap(new_str)),
                     lines_removed |-> acc.lines_removed + LinesCount(Unwrap(old_str)),
                     lines_added |-> acc.lines_added + LinesCount(Unwrap(new_str))],
                    edits_arr, i + 1)
             ELSE ReplayEdits(acc, edits_arr, i + 1)

\* let timestamp = log_entry.timestamp.clone().unwrap_or_default()
EditTimestamp(e) == UnwrapOr(e.timestamp, << >>)

\* let session_id = log_entry.session_id.clone().unwrap_or_else(|| "unknown")
EditSessionId(e) == UnwrapOr(e.session_id, "unknown")

\* The literals "create" and "Write".
CreateType == <<"c", "r", "e", "a", "t", "e">>
WriteTool == <<"W", "r", "i", "t", "e">>

\* Write/Create tool results (type: "create").
CreateEdits(e) ==
    LET r == e.tool_use_result
        file_path_str == AsStr(GetIn(r, "filePath"))
        content == AsStr(GetIn(r, "content"))
    IN  IF AsStr(GetIn(r, "type")) = Some(CreateType) /\ IsSome(file_path_str) /\ IsSome(content)
        THEN <<RecentFileEdit(Unwrap(file_path_str), EditTimestamp(e), EditSessionId(e),
                              "write", Unwrap(content), None,
                              LinesCount(Unwrap(content)), 0, e.cwd)>>
        ELSE << >>

\* Edit tool results: the multi-edit format when an `edits` member is present,
\* otherwise the single-edit format.
EditToolEdits(e) ==
    LET r == e.tool_use_result
        file_path_str == AsStr(GetIn(r, "filePath"))
        edits_arr_val == GetIn(r, "edits")
        original == AsStr(GetIn(r, "originalFile"))
        old_str == AsStr(GetIn(r, "oldString"))
        new_str == AsStr(GetIn(r, "newString"))
    IN  IF IsNone(file_path_str) THEN << >>
        ELSE IF IsSome(edits_arr_val)
        THEN IF IsNone(original) THEN << >>
             ELSE LET start_acc == [content |-> Unwrap(original), lines_added |-> 0,
                                    lines_removed |-> 0]
                      fin == IF IsSome(AsArray(edits_arr_val))
                             THEN ReplayEdits(start_acc, Unwrap(AsArray(edits_arr_val)), 1)
                             ELSE start_acc
                  IN  <<RecentFileEdit(Unwrap(file_path_str), EditTimestamp(e),
                                       EditSessionId(e), "edit", fin.content, original,
                                       fin.lines_added, fin.lines_removed, e.cwd)>>
        ELSE IF IsSome(old_str) /\ IsSome(new_str) /\ IsSome(original)
        THEN <<RecentFileEdit(Unwrap(file_path_str), EditTimestamp(e), EditSessionId(e),
                              "edit",
                              ReplaceOld(Unwrap(original), Unwrap(old_str), Unwrap(new_str)),
                              original, LinesCount(Unwrap(new_str)),
                              LinesCount(Unwrap(old_str)), e.cwd)>>
        ELSE << >>

\* tool_use for Write operations.
WriteToolEdits(e) ==
    LET name == AsStr(GetIn(e.tool_use, "name"))
        input == GetIn(e.tool_use, "input")
        path == AsStr(GetIn(input, "file_path"))
        content == AsStr(GetIn(input, "content"))
    IN  IF name = Some(WriteTool) /\ IsSome(path) /\ IsSome(content)
        THEN <<RecentFileEdit(Unwrap(path), EditTimestamp(e), EditSessionId(e), "write",
                              Unwrap(content), None, LinesCount(Unwrap(content)), 0, e.cwd)>>
        ELSE << >>

\* The edits one parsed line pushes, in push order.
EntryEdits(e) == CreateEdits(e) \o EditToolEdits(e) \o WriteToolEdits(e)

\* *map.entry(key).or_insert(0) += n
AddCount(map, key, n) ==
    IF key \in DOMAIN map THEN [map EXCEPT ![key] = @ + n] ELSE map @@ (key :> n)

\* The loop over line_ranges from line i on: lines that do not parse are passed over.
RECURSIVE ScanEditLines(_, _, _)
ScanEditLines(acc, lines, i) ==
    IF i > Len(lines) THEN acc
    ELSE LET parsed == FromSlice(lines[i])
         IN  IF IsNone(parsed) THEN ScanEditLines(acc, lines, i + 1)
             ELSE LET e == Unwrap(parsed)
                  IN  ScanEditLines(
                        [edits |-> acc.edits \o EntryEdits(e),
                         cwd_counts |-> IF IsSome(e.cwd)
                                        THEN AddCount(acc.cwd_counts, Unwrap(e.cwd), 1)
                                        ELSE acc.cwd_counts],
                        lines, i + 1)

\* process_session_file_for_edits: None when the file cannot be opened or mapped.
ProcessSessionFileForEdits(file) ==
    IF ~file.readable THEN None
    ELSE Some(ScanEditLines([edits |-> << >>, cwd_counts |-> << >>], file.lines, 1))

-----------------------------------------------------------------------------
(* commands/session/edits.rs, get_recent_edits: aggregation and pagination *)

\* Program defaults: offset.unwrap_or(0), limit.unwrap_or(20).
DefaultOffset == 0
DefaultLimit == 20

\* Phase 3: all_edits, the per-file edits in file_results order.
RECURSIVE AllEdits(_)
AllEdits(frs) == IF frs = << >> THEN << >> ELSE frs[1].edits \o AllEdits(Tail(frs))

\* Adding one per-file cwd_counts map into the running map, key by key.
MergeCounts(map, other) ==
    [k \in DOMAIN map \cup DOMAIN other |->
        (IF k \in DOMAIN map THEN map[k] ELSE 0) + (IF k \in DOMAIN other THEN other[k] ELSE 0)]

\* Phase 3: cwd_counts summed over the per-file results.
RECURSIVE CwdCounts(_)
CwdCounts(frs) ==
    IF frs = << >> THEN << >> ELSE MergeCounts(frs[1].cwd_counts, CwdCounts(Tail(frs)))

\* A choice of project directory that ignores the counts.
MostCommonCwds_Any(counts) ==
    IF DOMAIN counts = {} THEN {None} ELSE {Some(c) : c \in DOMAIN counts}

\* The working directories max_by_key can return: HashMap iteration order is
\* arbitrary, so any key with the greatest count can come out.
MostCommonCwds(counts) ==
    IF DOMAIN counts = {} THEN {None}
    ELSE {Some(c) : c \in {d \in DOMAIN counts : \A o \in DOMAIN counts : counts[o] <= counts[d]}}

\* The filter's comparison: case-insensitive on Windows builds.
InProject(file_path, cwd, win) ==
    IF win THEN StartsWith(ToLowercase(file_path), ToLowercase(cwd))
    ELSE StartsWith(file_path, cwd)

\* filtered_edits
FilteredEdits(all_edits, project_cwd, win) ==
    IF IsSome(project_cwd)
    THEN LET Keep(edit) == InProject(edit.file_path, Unwrap(project_cwd), win)
         IN  SelectSeq(all_edits, Keep)
    ELSE all_edits

\* A comparator that compares the timestamps the other way round.
NewerThan_Ascending(a, b) == StrLess(a.timestamp, b.timestamp)

\* The comparator b.timestamp.cmp(&a.timestamp) says a goes before b.
NewerThan(a, b) == StrLess(b.timestamp, a.timestamp)

\* One step of a stable sort: e goes after every element already placed that
\* it is not strictly newer than.
InsertSorted(sorted, e) ==
    LET k == Cardinality({i \in 1..Len(sorted) : ~NewerThan(e, sorted[i])})
    IN  SubSeq(sorted, 1, k) \o <<e>> \o SubSeq(sorted, k + 1, Len(sorted))

\* sort_by(|a, b| b.timestamp.cmp(&a.timestamp)): stable, newest first.
RECURSIVE SortInto(_, _)
SortInto(sorted, rest) ==
    IF rest = << >> THEN sorted ELSE SortInto(InsertSorted(sorted, rest[1]), Tail(rest))

SortNewestFirst(edits) == SortInto(<< >>, edits)

\* latest_by_file.entry(path).or_insert(edit) over sorted_edits: the first edit
\* of each path is kept.
RECURSIVE LatestByFile(_, _)
LatestByFile(map, sorted_edits) ==
    IF sorted_edits = << >> THEN map
    ELSE LatestByFile(
            IF sorted_edits[1].file_path \in DOMAIN map THEN map
            ELSE map @@ (sorted_edits[1].file_path :> sorted_edits[1]),
            Tail(sorted_edits))

\* files.into_iter().skip(offset).take(limit)
SkipTake(files, offset, limit) ==
    SubSeq(files, offset + 1, Min(Len(files), offset + limit))

\* A has_more that also counts the boundary.
HasMore_Inclusive(offset, returned, unique_files_count) == offset + returned <= unique_files_count

\* has_more
HasMore(offset, returned, unique_files_count) == offset + returned < unique_files_count

\* Phase 3 to the end, for one outcome of the two hash-map iterations:
\* project_cwd is the key max_by_key yields and value_order the order in which
\* into_values yields the paths.
RecentEdits(frs, win, project_cwd, value_order, offset_arg, limit_arg) ==
    LET offset == UnwrapOr(offset_arg, DefaultOffset)
        limit == UnwrapOr(limit_arg, DefaultLimit)
        filtered_edits == FilteredEdits(AllEdits(frs), project_cwd, win)
        latest_by_file == LatestByFile(<< >>, SortNewestFirst(filtered_edits))
        unique_files_count == Cardinality(DOMAIN latest_by_file)
        files == SortNewestFirst([i \in 1..Len(value_order) |-> latest_by_file[value_order[i]]])
        paginated_files == SkipTake(files, offset, limit)
    IN  [ok |-> TRUE,
         files |-> paginated_files,
         total_edits_count |-> Len(filtered_edits),
         unique_files_count |-> unique_files_count,
         project_cwd |-> project_cwd,
         offset |-> offset,
         limit |-> limit,
         has_more |-> HasMore(offset, Len(paginated_files), unique_files_count)]

\* The paths latest_by_file holds for a given project_cwd.
LatestPaths(frs, win, project_cwd) ==
    {e.file_path : e \in Range(FilteredEdits(AllEdits(frs), project_cwd, win))}

\* Every result the aggregation can produce from the per-file results.
RecentEditsOutcomes(frs, win, offset_arg, limit_arg) ==
    UNION {{RecentEdits(frs, win, c, o, offset_arg, limit_arg) :
                o \in Orders(LatestPaths(frs, win, c))} :
           c \in MostCommonCwds(CwdCounts(frs))}

\* file_results: the results of the files that could be processed, in
\* session_files order (rayon's collect keeps the order of the input).
RECURSIVE Collected(_)
Collected(opts) ==
    IF opts = << >> THEN << >>
    ELSE (IF IsSome(opts[1]) THEN <<Unwrap(opts[1])>> ELSE << >>) \o Collected(Tail(opts))

\* The arguments a caller passes: absent, or a number.
OffsetArgs == {None, Some(0), Some(1), Some(2), Some(3)}
LimitArgs == {None, Some(0), Some(1), Some(2)}

\* Phase 1: WalkDir yields the session files in an order the file system decides.
CollectSessionFiles ==
    /\ pc = "start"
    /\ session_files' \in Orders(1..Len(tree))
    /\ file_results' = [i \in 1..Len(tree) |-> None]
    /\ pc' = "process"
    /\ UNCHANGED <<tree, args, windows, result, scanVars, entryVars>>

\* Phase 2: a worker processes one file; the workers take the files in any order.
ProcessSessionFile ==
    /\ pc = "process"
    /\ \E i \in 1..Len(session_files) :
        /\ IsNone(file_results[i])
        /\ file_results' = [file_results EXCEPT
                               ![i] = Some(ProcessSessionFileForEdits(tree[session_files[i]]))]
    /\ UNCHANGED <<pc, tree, args, windows, session_files, result, scanVars, entryVars>>

\* Phase 3 and pagination, once every file has been processed, for a call
\* whose offset and limit are among the given ones.
AggregateWith(offset_args, limit_args) ==
    /\ pc = "process"
    /\ \A i \in 1..Len(session_files) : IsSome(file_results[i])
    /\ \E offset_arg \in offset_args, limit_arg \in limit_args :
        /\ args' = [offset |-> offset_arg, limit |-> limit_arg]
        /\ result' \in RecentEditsOutcomes(
                          Collected([i \in 1..Len(session_files) |-> Unwrap(file_results[i])]),
                          windows, offset_arg, limit_arg)
    /\ pc' = "done"
    /\ UNCHANGED <<tree, windows, session_files, file_results, scanVars, entryVars>>

\* get_recent_edits(project_path, offset, limit)
AggregateEdits == AggregateWith(OffsetArgs, LimitArgs)

\* get_recent_edits(project_path, None, None)
AggregateEditsDefault == AggregateWith({None}, {None})

NextEdits == CollectSessionFiles \/ ProcessSessionFile \/ AggregateEdits

\* The trees of one or two readable session files holding at most n lines
\* of the set `lines` in all.
Trees(lines, n) ==
    UNION {{<<SessionFile(TRUE, s)>>} \cup
           {<<SessionFile(TRUE, SubSeq(s, 1, k)), SessionFile(TRUE, SubSeq(s, k + 1, Len(s)))>> :
                k \in 0..Len(s)} :
           s \in SeqsUpTo(lines, n)}

\* Inputs of the edit specification: single-edit tool results inside one
\* project directory.
MaxEditLines == 2
ProjectDir == <<"/", "p">>
EditPaths == {<<"/", "p", "/", "x">>, <<"/", "p", "/", "y">>}
EditTimestamps == {<<"1">>, <<"1", "0">>, <<"2">>}
NewStrings == {<<"b">>, <<"c">>}

SingleEditEntry(ts, cwd, path, new_string) ==
    [BlankEntry("user") EXCEPT
        !.timestamp = Some(ts), !.session_id = Some("s1"), !.cwd = cwd,
        !.tool_use_result =
            Some(JObj(("filePath" :> JStr(path)) @@ ("oldString" :> JStr(<<"a">>)) @@
                      ("newString" :> JStr(new_string)) @@ ("originalFile" :> JStr(<<"a">>))))]

EditLines ==
    {EntryLine(SingleEditEntry(ts, Some(ProjectDir), path, new)) :
        ts \in EditTimestamps, path \in EditPaths, new \in NewStrings}

InitEdits ==
    /\ pc = "start"
    /\ tree \in Trees(EditLines, MaxEditLines)
    /\ args = Idle
    /\ windows = FALSE
    /\ session_files = << >>
    /\ file_results = << >>
    /\ result = Idle
    /\ IdleScan
    /\ IdleEntry

SpecEdits == InitEdits /\ [][NextEdits]_vars

\* The per-file results when the files are enumerated in the order ord.
ResultsInOrder(ord) ==
    Collected([i \in 1..Len(ord) |-> ProcessSessionFileForEdits(tree[ord[i]])])

\* Every edit the session files hold, in tree order.
TreeEdits == AllEdits(ResultsInOrder([i \in 1..Len(tree) |-> i]))

\* The working directory counts of the whole tree.
TreeCwdCounts == CwdCounts(ResultsInOrder([i \in 1..Len(tree) |-> i]))

\* C4: with a unique most frequent working directory, get_recent_edits returns
\* the same result whatever the enumeration order of the files and the
\* iteration order of the hash maps, also when timestamps are equal.
C4_OrderIndependent ==
    (pc = "done" /\ Cardinality(MostCommonCwds(TreeCwdCounts)) = 1) =>
        \A ord \in Orders(1..Len(tree)) :
            \A r \in RecentEditsOutcomes(ResultsInOrder(ord), windows, args.offset, args.limit) :
                r = result

\* The positions in edits of the edits of path f.
EditsOf(edits, f) == {k \in 1..Len(edits) : edits[k].file_path = f}

\* Path f is edited, at pairwise distinct timestamps.
EditedAtDistinctTimes(edits, f) ==
    /\ EditsOf(edits, f) /= {}
    /\ \A j, k \in EditsOf(edits, f) : j /= k => edits[j].timestamp /= edits[k].timestamp

\* The edit of f with the greatest timestamp (timestamps compare as strings).
LastEditOf(edits, f) ==
    edits[CHOOSE k \in EditsOf(edits, f) :
            \A j \in EditsOf(edits, f) : ~StrLess(edits[k].timestamp, edits[j].timestamp)]

\* The positions of the entries for f in the returned page.
EntriesFor(f) == {i \in 1..Len(result.files) : result.files[i].file_path = f}

\* The counts C5 is about: every edit is counted, every path once.
CountsAllEdits(edits) ==
    /\ result.total_edits_count = Len(edits)
    /\ result.unique_files_count = Cardinality({edits[k].file_path : k \in 1..Len(edits)})

\* C5 as stated: for a path F edited at distinct timestamps, the result holds
\* exactly one entry for F, the one of the last edit, all edits are counted in
\* total_edits_count and F once in unique_files_count.
C5_ExactlyOneEntry ==
    pc = "done" =>
        LET edits == TreeEdits
        IN  \A f \in EditPaths :
                EditedAtDistinctTimes(edits, f) =>
                    /\ Cardinality(EntriesFor(f)) = 1
                    /\ \A i \in EntriesFor(f) : result.files[i] = LastEditOf(edits, f)
                    /\ CountsAllEdits(edits)

\* C5 as amended: the page holds at most one entry for F, any entry for F is
\* the edit with the greatest timestamp string, a page that starts at 0 and is
\* not cut by the limit holds exactly one, all edits are counted in
\* total_edits_count and F once in unique_files_count.
C5_LatestPerFile ==
    pc = "done" =>
        LET edits == TreeEdits
        IN  \A f \in EditPaths :
                EditedAtDistinctTimes(edits, f) =>
                    /\ Cardinality(EntriesFor(f)) <= 1
                    /\ \A i \in EntriesFor(f) : result.files[i] = LastEditOf(edits, f)
                    /\ (result.offset = 0 /\ result.limit >= result.unique_files_count)
                          => Cardinality(EntriesFor(f)) = 1
                    /\ CountsAllEdits(edits)

\* /p/x edited at "10" in one file and at "2" in the other, "2" being the
\* greater string: the entry returned is the edit at "2".
C5_Witness ==
    /\ pc = "done"
    /\ Len(tree) = 2
    /\ Len(tree[1].lines) = 1 /\ Len(tree[2].lines) = 1
    /\ LET edits == TreeEdits
       IN  /\ edits[1].file_path = <<"/", "p", "/", "x">>
           /\ edits[2].file_path = <<"/", "p", "/", "x">>
           /\ edits[1].timestamp = <<"2">>
           /\ edits[2].timestamp = <<"1", "0">>
           /\ result.files = <<edits[1]>>
    /\ result.total_edits_count = 2
    /\ result.unique_files_count = 1

\* C6: the page holds min(limit, max(0, unique_files_count - offset)) files,
\* never more than limit; has_more is true iff offset + returned <
\* unique_files_count; an offset at or beyond unique_files_count gives an empty
\* page without has_more; absent offset and limit mean 0 and 20.
C6_Pagination ==
    pc = "done" =>
        /\ Len(result.files)
              = Min(result.limit, Max(0, result.unique_files_count - result.offset))
        /\ Len(result.files) <= result.limit
        /\ result.has_more
              <=> (result.offset + Len(result.files) < result.unique_files_count)
        /\ result.offset >= result.unique_files_count
              => (result.files = << >> /\ ~result.has_more)
        /\ result.offset = (IF args.offset = None THEN 0 ELSE args.offset[1])
        /\ result.limit = (IF args.limit = None THEN 20 ELSE args.limit[1])

\* Two files edited, a page of one from the default offset: one file is
\* returned and more are left.
C6_Witness ==
    /\ pc = "done"
    /\ args.offset = None /\ args.limit = Some(1)
    /\ result.unique_files_count = 2
    /\ Len(result.files) = 1
    /\ result.has_more

-----------------------------------------------------------------------------
(* Multi-edit replay: edits.rs, process_session_file_for_edits, lines 80-113 *)

MaxOrigLen == 2
MaxEdits == 2

\* One element of the `edits` array.
EditStep(old_string, new_string) ==
    JObj(("old_string" :> JStr(old_string)) @@ ("new_string" :> JStr(new_string)))

\* The elements the arrays are made of: four replacements (one with an empty
\* old_string), one element without new_string, one whose old_string is not
\* a string.
EditSteps ==
    {EditStep(<<"a">>, <<"b">>), EditStep(<<"b">>, <<"c">>), EditStep(<<"b">>, <<"a">>),
     EditStep(<< >>, <<"c">>),
     JObj("old_string" :> JStr(<<"a">>)),
     JObj(("old_string" :> JNum(1)) @@ ("new_string" :> JStr(<<"b">>)))}

\* A record whose tool result carries filePath, an edits array and originalFile.
MultiEditEntry(original, edits_arr) ==
    [BlankEntry("user") EXCEPT
        !.timestamp = Some(<<"1">>), !.session_id = Some("s1"),
        !.tool_use_result =
            Some(JObj(("filePath" :> JStr(<<"/", "p", "/", "x">>)) @@
                      ("edits" :> JArr(edits_arr)) @@ ("originalFile" :> JStr(original))))]

\* One session file holding one multi-edit record.
InitReplay ==
    /\ pc = "start"
    /\ \E original \in SeqsUpTo({"a", "b"}, MaxOrigLen), edits_arr \in SeqsUpTo(EditSteps, MaxEdits) :
          tree = <<SessionFile(TRUE, <<EntryLine(MultiEditEntry(original, edits_arr))>>)>>
    /\ args = Idle
    /\ windows = FALSE
    /\ session_files = << >>
    /\ file_results = << >>
    /\ result = Idle
    /\ IdleScan
    /\ IdleEntry

NextReplay == CollectSessionFiles \/ ProcessSessionFile \/ AggregateEditsDefault

SpecReplay == InitReplay /\ [][NextReplay]_vars

\* The tool result of the record the tree holds.
ReplayedResult == Unwrap(tree[1].lines[1].entry.tool_use_result)

\* s with its first occurrence of old replaced by new; s when old does not occur.
ReplaceFirstOccurrence(s, old, new) ==
    LET occ == {i \in 0..(Len(s) - Len(old)) : SubSeq(s, i + 1, i + Len(old)) = old}
    IN  IF occ = {} THEN s
        ELSE LET i == CHOOSE p \in occ : \A q \in occ : p <= q
             IN  SubSeq(s, 1, i) \o new \o SubSeq(s, i + Len(old) + 1, Len(s))

\* The left fold of ReplaceFirstOccurrence over the array, in array order; an
\* element that lacks a string old_string or new_string changes nothing.
RECURSIVE FoldReplace(_, _)
FoldReplace(s, arr) ==
    IF arr = << >> THEN s
    ELSE LET e == arr[1]
             ok == /\ "old_string" \in DOMAIN e.fields /\ e.fields["old_string"].kind = "string"
                   /\ "new_string" \in DOMAIN e.fields /\ e.fields["new_string"].kind = "string"
         IN  FoldReplace(IF ok THEN ReplaceFirstOccurrence(s, e.fields["old_string"].str,
                                                           e.fields["new_string"].str)
                         ELSE s,
                         Tail(arr))

\* C7: for a tool result with filePath, an edits array and originalFile, the
\* emitted edit's content_after_change is the left fold, in array order from
\* originalFile, of replacing the first occurrence of old_string by new_string,
\* and original_content is originalFile unchanged.
C7_ReplayIsLeftFold ==
    pc = "done" =>
        /\ Len(result.files) = 1
        /\ result.files[1].content_after_change
              = FoldReplace(ReplayedResult.fields["originalFile"].str,
                            ReplayedResult.fields["edits"].items)
        /\ result.files[1].original_content = Some(ReplayedResult.fields["originalFile"].str)
        /\ result.files[1].operation_type = "edit"

\* Original "a" with edits [a->b, b->c] gives "c": the second step sees the
\* output of the first.
C7_Witness ==
    /\ pc = "done"
    /\ ReplayedResult.fields["originalFile"].str = <<"a">>
    /\ ReplayedResult.fields["edits"].items
          = <<EditStep(<<"a">>, <<"b">>), EditStep(<<"b">>, <<"c">>)>>
    /\ result.files[1].content_after_change = <<"c">>
    /\ result.files[1].original_content = Some(<<"a">>)

-----------------------------------------------------------------------------
(* Project directory: edits.rs, get_recent_edits, lines 209-250 *)

MaxCwdLines == 3

\* Working directories and edited paths: /P/x is inside /p only when case is
\* ignored, and nothing is inside /q.
Cwds == {<<"/", "p">>, <<"/", "q">>}
CwdPaths == {<<"/", "p", "/", "x">>, <<"/", "P", "/", "x">>}

\* A record with a cwd and no tool result.
CwdOnlyEntry(cwd) ==
    [BlankEntry("user") EXCEPT !.timestamp = Some(<<"1">>), !.session_id = Some("s1"), !.cwd = cwd]

CwdLines ==
    {EntryLine(SingleEditEntry(<<"1">>, cwd, path, <<"b">>)) : cwd \in Option(Cwds), path \in CwdPaths}
        \cup {EntryLine(CwdOnlyEntry(Some(cwd))) : cwd \in Cwds}

\* The build is for Windows or not (cfg(target_os = "windows")).
InitCwd ==
    /\ pc = "start"
    /\ tree \in Trees(CwdLines, MaxCwdLines)
    /\ args = Idle
    /\ windows \in BOOLEAN
    /\ session_files = << >>
    /\ file_results = << >>
    /\ result = Idle
    /\ IdleScan
    /\ IdleEntry

NextCwd == CollectSessionFiles \/ ProcessSessionFile \/ AggregateEditsDefault

SpecCwd == InitCwd /\ [][NextCwd]_vars

\* The number of edits of the tree whose path satisfies Inside.
CountEdits(edits, Inside(_)) == Cardinality({k \in 1..Len(edits) : Inside(edits[k].file_path)})

\* project_cwd is a working directory with the greatest count over all files.
IsMostCommon(counts, project_cwd) ==
    /\ IsSome(project_cwd)
    /\ Unwrap(project_cwd) \in DOMAIN counts
    /\ \A o \in DOMAIN counts : counts[o] <= counts[Unwrap(project_cwd)]

\* No record carries a cwd: no project_cwd, and no edit is filtered out.
NothingFiltered(edits) ==
    /\ result.project_cwd = None
    /\ result.total_edits_count = Len(edits)
    /\ result.unique_files_count = Cardinality({edits[k].file_path : k \in 1..Len(edits)})

\* C8 as stated: when a record carries a cwd, project_cwd has a maximal count
\* and every counted edit and every returned entry has a file_path that starts
\* with project_cwd; when none does, project_cwd is absent and nothing is
\* filtered out.
C8_PathsStartWithCwd ==
    pc = "done" =>
        LET edits == TreeEdits
            counts == TreeCwdCounts
            Inside(path) == StartsWith(path, Unwrap(result.project_cwd))
        IN  IF DOMAIN counts /= {}
            THEN /\ IsMostCommon(counts, result.project_cwd)
                 /\ result.total_edits_count = CountEdits(edits, Inside)
                 /\ \A i \in 1..Len(result.files) : Inside(result.files[i].file_path)
            ELSE NothingFiltered(edits)

\* C8 as amended: the prefix test ignores case on a Windows build (both sides
\* lowercased) and is exact on the others.
C8_PathsInsideCwd ==
    pc = "done" =>
        LET edits == TreeEdits
            counts == TreeCwdCounts
            Inside(path) ==
                IF windows
                THEN StartsWith(ToLowercase(path), ToLowercase(Unwrap(result.project_cwd)))
                ELSE StartsWith(path, Unwrap(result.project_cwd))
        IN  IF DOMAIN counts /= {}
            THEN /\ IsMostCommon(counts, result.project_cwd)
                 /\ result.total_edits_count = CountEdits(edits, Inside)
                 /\ \A i \in 1..Len(result.files) : Inside(result.files[i].file_path)
            ELSE NothingFiltered(edits)

\* A Windows build, /p seen twice and /q once, edits of /P/x and /p/x: /p is
\* the project directory and both edits are counted.
C8_Witness ==
    /\ pc = "done"
    /\ windows
    /\ TreeCwdCounts = (<<"/", "p">> :> 2) @@ (<<"/", "q">> :> 1)
    /\ result.project_cwd = Some(<<"/", "p">>)
    /\ result.total_edits_count = 2
    /\ {result.files[i].file_path : i \in 1..Len(result.files)} = CwdPaths

-----------------------------------------------------------------------------
(* commands/stats.rs: ClaudeMessage::try_from and extract_token_usage *)

\* MessageContent, as far as the commands read it.
MessageContent(role, content, usage) == [role |-> role, content |-> content, usage |-> usage]

\* ClaudeMessage, as far as the commands read it.
ClaudeMessage(uuid, session_id, timestamp, message_type, content, tool_use, tool_use_result, usage, role) ==
    [uuid |-> uuid, session_id |-> session_id, timestamp |-> timestamp,
     message_type |-> message_type, content |-> content, tool_use |-> tool_use,
     tool_use_result |-> tool_use_result, usage |-> usage, role |-> role]

Ok(v) == [ok |-> TRUE, value |-> v]
Err(e) == [ok |-> FALSE, error |-> e]

\* A guard that rejects a record lacking either of the two fields.
MissingIdentity_Either(e) == IsNone(e.session_id) \/ IsNone(e.timestamp)

\* log_entry.session_id.is_none() && log_entry.timestamp.is_none()
MissingIdentity(e) == IsNone(e.session_id) /\ IsNone(e.timestamp)

\* ClaudeMessage::try_from(log_entry), with the clock reading and the uuid the
\* generator yields at the call.
TryFrom(e, clock, fresh_uuid) ==
    IF e.message_type = "summary" THEN Err("Summary entries should be handled separately")
    ELSE IF MissingIdentity(e) THEN Err("Missing session_id and timestamp")
    ELSE Ok(ClaudeMessage(
            UnwrapOr(e.uuid, fresh_uuid),
            UnwrapOr(e.session_id, "unknown-session"),
            UnwrapOr(e.timestamp, clock),
            e.message_type,
            IF IsSome(e.message) THEN Some(Unwrap(e.message).content) ELSE None,
            e.tool_use,
            e.tool_use_result,
            IF IsSome(e.message) THEN Unwrap(e.message).usage ELSE None,
            IF IsSome(e.message) THEN Some(Unwrap(e.message).role) ELSE None))

\* The conversion of one record.
Canonicalize ==
    /\ pc = "start"
    /\ output' = TryFrom(log_entry, now, new_uuid)
    /\ pc' = "done"
    /\ UNCHANGED <<log_entry, now, new_uuid, message, scanVars, walkVars>>

NextCanon == Canonicalize

\* The records converted: every type the commands distinguish, each of uuid,
\* session id and timestamp present or not, with or without a message.
RawEntries ==
    {[BlankEntry(type) EXCEPT !.uuid = uuid, !.session_id = session_id,
                              !.timestamp = timestamp, !.message = msg] :
        type \in {"summary", "user", "assistant"},
        uuid \in Option({"u0"}), session_id \in Option({"s1"}),
        timestamp \in Option({<<"1">>}),
        msg \in Option({MessageContent("user", JStr(<<"a">>), None)})}

InitCanon ==
    /\ pc = "start"
    /\ log_entry \in RawEntries
    /\ now \in {<<"1", "0">>, <<"2">>}
    /\ new_uuid \in {"u1", "u2"}
    /\ message = Idle
    /\ output = Idle
    /\ IdleScan
    /\ IdleWalk

SpecCanon == InitCanon /\ [][NextCanon]_vars

\* C10: try_from returns an error iff the record's type is "summary" or it has
\* neither session id nor timestamp; every other record is accepted, a missing
\* session id replaced by "unknown-session", a missing timestamp by the current
\* time, a missing uuid by a generated one; the call always returns.
C10_RejectsIff ==
    pc = "done" =>
        /\ output.ok \in BOOLEAN
        /\ ~output.ok <=> (log_entry.message_type = "summary"
                            \/ (log_entry.session_id = None /\ log_entry.timestamp = None))
        /\ output.ok =>
              /\ output.value.session_id
                    = (IF log_entry.session_id = None THEN "unknown-session"
                       ELSE log_entry.session_id[1])
              /\ output.value.timestamp
                    = (IF log_entry.timestamp = None THEN now ELSE log_entry.timestamp[1])
              /\ output.value.uuid
                    = (IF log_entry.uuid = None THEN new_uuid ELSE log_entry.uuid[1])
              /\ output.value.message_type = log_entry.message_type

\* A record with a session id but neither timestamp nor uuid is accepted, with
\* the current time and a generated uuid.
C10_Witness ==
    /\ pc = "done"
    /\ log_entry.message_type = "user"
    /\ log_entry.session_id = Some("s1")
    /\ log_entry.timestamp = None
    /\ log_entry.uuid = None
    /\ output.ok
    /\ output.value.timestamp = now
    /\ output.value.uuid = new_uuid

-----------------------------------------------------------------------------
(* commands/stats.rs: extract_token_usage *)

\* A JSON number of 2^32 * hi + lo: what as_u64 yields has lo as its low 32 bits.
JBig(hi, lo) == [kind |-> "number", num |-> lo, hi |-> hi]

\* The part of a JSON number above its low 32 bits.
HighWord(v) == IF "hi" \in DOMAIN v THEN v.hi ELSE 0

\* usage_obj.get(key).and_then(|v| v.as_u64()) followed by `as u32`: the low
\* 32 bits of an unsigned integer; None for anything else.
AsU32(o) ==
    IF IsSome(o) /\ Unwrap(o).kind = "number" /\ Unwrap(o).num >= 0
    THEN Some(Unwrap(o).num) ELSE None

TokenFields ==
    {"input_tokens", "output_tokens", "cache_creation_input_tokens", "cache_read_input_tokens"}

TokenUsage(inp, outp, cache_creation, cache_read, tier) ==
    [input_tokens |-> inp, output_tokens |-> outp,
     cache_creation_input_tokens |-> cache_creation,
     cache_read_input_tokens |-> cache_read, service_tier |-> tier]

\* if let Some(n) = usage_obj.get(field).and_then(|v| v.as_u64()) { usage.field = Some(n as u32) }
SetField(usage, usage_obj, field) ==
    IF IsSome(AsU32(Get(usage_obj, field))) THEN AsU32(Get(usage_obj, field)) ELSE usage[field]

\* A third step that fills only the fields still unset.
ToolField_KeepsEarlier(usage, usage_obj, field) ==
    IF IsSome(usage[field]) THEN usage[field] ELSE SetField(usage, usage_obj, field)

\* The assignments of the third step (lines 51-62).
ToolField(usage, usage_obj, field) == SetField(usage, usage_obj, field)

\* Step 2: the usage object of an object content.
ContentUsage(usage, content) ==
    LET usage_obj == IF IsSome(content) /\ Unwrap(content).kind = "object"
                        /\ IsSome(Get(Unwrap(content), "usage"))
                     THEN Get(Unwrap(content), "usage") ELSE None
    IN  IF IsNone(usage_obj) THEN usage
        ELSE LET o == Unwrap(usage_obj)
             IN  TokenUsage(SetField(usage, o, "input_tokens"),
                            SetField(usage, o, "output_tokens"),
                            SetField(usage, o, "cache_creation_input_tokens"),
                            SetField(usage, o, "cache_read_input_tokens"),
                            IF IsSome(AsStr(Get(o, "service_tier")))
                            THEN AsStr(Get(o, "service_tier")) ELSE usage.service_tier)

\* Step 3, first part: the usage object of the tool result.
ToolUsage(usage, tool_result) ==
    IF IsNone(GetIn(tool_result, "usage")) THEN usage
    ELSE LET o == Unwrap(GetIn(tool_result, "usage"))
         IN  TokenUsage(ToolField(usage, o, "input_tokens"),
                        ToolField(usage, o, "output_tokens"),
                        ToolField(usage, o, "cache_creation_input_tokens"),
                        ToolField(usage, o, "cache_read_input_tokens"),
                        usage.service_tier)

\* A fallback that credits the input tokens whatever the message type.
TotalTokens_AlwaysInput(usage, tool_result, message_type) ==
    LET total_tokens == AsU32(GetIn(tool_result, "totalTokens"))
    IN  IF IsSome(total_tokens) /\ IsNone(usage.input_tokens) /\ IsNone(usage.output_tokens)
        THEN [usage EXCEPT !.input_tokens = total_tokens]
        ELSE usage

\* Step 3, second part: totalTokens when neither input nor output is set.
TotalTokens(usage, tool_result, message_type) ==
    LET total_tokens == AsU32(GetIn(tool_result, "totalTokens"))
    IN  IF IsSome(total_tokens) /\ IsNone(usage.input_tokens) /\ IsNone(usage.output_tokens)
        THEN IF message_type = "assistant"
             THEN [usage EXCEPT !.output_tokens = total_tokens]
             ELSE [usage EXCEPT !.input_tokens = total_tokens]
        ELSE usage

\* extract_token_usage(message)
ExtractTokenUsage(m) ==
    IF IsSome(m.usage) THEN Unwrap(m.usage)
    ELSE TotalTokens(
            ToolUsage(ContentUsage(TokenUsage(None, None, None, None, None), m.content),
                      m.tool_use_result),
            m.tool_use_result, m.message_type)

\* One call of extract_token_usage.
ExtractUsage ==
    /\ pc = "start"
    /\ output' = ExtractTokenUsage(message)
    /\ pc' = "done"
    /\ UNCHANGED <<log_entry, now, new_uuid, message, scanVars, walkVars>>

NextUsage == ExtractUsage

\* The sets of fields a usage object carries: none, one, all four.
FieldSets == {{}} \cup {{f} : f \in TokenFields} \cup {TokenFields}

\* Message-level usage: absent, or 1 in the fields of one of the sets.
MessageUsages ==
    {None} \cup {Some([f \in TokenFields \cup {"service_tier"} |->
                          IF f \in S THEN Some(1) ELSE None]) : S \in FieldSets}

\* Contents: absent, a string, an object without usage, an object whose usage
\* carries 2 in the fields of one of the sets.
Contents ==
    {None, Some(JStr(<<"a">>)), Some(JObj(NoFields))}
        \cup {Some(JObj("usage" :> JObj([f \in S |-> JNum(2)] @@ ("service_tier" :> JStr(<<"a">>))))) :
                S \in FieldSets}

\* totalTokens of a tool result: absent, 9, 2^32 + 9, or a string.
TotalTokensMembers ==
    {NoFields, "totalTokens" :> JNum(9), "totalTokens" :> JBig(1, 9),
     "totalTokens" :> JStr(<<"9">>)}

\* Tool results: absent, or an object with or without totalTokens and with or
\* without a usage object carrying, in the fields of one of the sets, 3, or
\* 2^32 + 3, or a string.
ToolResults ==
    {None}
        \cup {Some(JObj(tt)) : tt \in TotalTokensMembers}
        \cup {Some(JObj(("usage" :> JObj([f \in S |-> v])) @@ tt)) :
                S \in FieldSets, v \in {JNum(3), JBig(1, 3), JStr(<<"a">>)},
                tt \in TotalTokensMembers}

InitUsage ==
    /\ pc = "start"
    /\ \E type \in {"assistant", "user"}, usage \in MessageUsages, content \in Contents,
          tool_result \in ToolResults :
          message = ClaudeMessage("u0", "s1", <<"1">>, type, content, None, tool_result,
                                  usage, Some(type))
    /\ log_entry = Idle
    /\ now = Idle
    /\ new_uuid = Idle
    /\ output = Idle
    /\ IdleScan
    /\ IdleWalk

SpecUsage == InitUsage /\ [][NextUsage]_vars

\* The usage object of the message's tool result, if it carries one.
ToolUsageObject == GetIn(message.tool_use_result, "usage")

\* Field f is carried by the tool result's usage object as an unsigned integer.
CarriesTokens(f) ==
    /\ IsSome(ToolUsageObject)
    /\ IsSome(Get(Unwrap(ToolUsageObject), f))
    /\ Unwrap(Get(Unwrap(ToolUsageObject), f)).kind = "number"
    /\ Unwrap(Get(Unwrap(ToolUsageObject), f)).num >= 0

-----------------------------------------------------------------------------
(* Tree walks: search.rs search_messages; stats.rs get_project_token_stats,
   get_project_stats_summary, get_global_stats_summary *)

Digits == {"0", "1", "2", "3", "4", "5", "6", "7", "8", "9"}

\* DateTime::parse_from_rfc3339 on the strings of the forms YYYY-MM-DDTHH:MM:SSZ
\* and YYYY-MM-DDTHH:MM:SS+00:00 (the form to_rfc3339 gives a whole second in
\* UTC); every other string of the model fails to parse.
ParseFromRfc3339(s) ==
    IF /\ Len(s) >= 20
       /\ s[5] = "-" /\ s[8] = "-" /\ s[11] = "T" /\ s[14] = ":" /\ s[17] = ":"
       /\ \A i \in (1..19) \ {5, 8, 11, 14, 17} : s[i] \in Digits
       /\ SubSeq(s, 20, Len(s)) \in {<<"Z">>, <<"+", "0", "0", ":", "0", "0">>}
    THEN Some([date |-> SubSeq(s, 1, 10), time |-> SubSeq(s, 12, 19)]) ELSE None

\* str::contains
Contains(s, pat) == MatchPositions(s, pat) /= {}

\* A search that compares the strings as they are written.
RECURSIVE SearchInValue_CaseSensitive(_, _)
SearchInValue_CaseSensitive(value, query) ==
    CASE value.kind = "string" -> Contains(value.str, query)
      [] value.kind = "array" ->
            \E i \in 1..Len(value.items) : SearchInValue_CaseSensitive(value.items[i], query)
      [] value.kind = "object" ->
            \E k \in DOMAIN value.fields : SearchInValue_CaseSensitive(value.fields[k], query)
      [] OTHER -> FALSE

\* search_in_value(value, query)
RECURSIVE SearchInValue(_, _)
SearchInValue(value, query) ==
    CASE value.kind = "string" -> Contains(ToLowercase(value.str), query)
      [] value.kind = "array" ->
            \E i \in 1..Len(value.items) : SearchInValue(value.items[i], query)
      [] value.kind = "object" ->
            \E k \in DOMAIN value.fields : SearchInValue(value.fields[k], query)
      [] OTHER -> FALSE

\* format!("{}-line-{}", Uuid::new_v4(), line_num + 1)
LineUuid(fresh_uuid, line_number) == fresh_uuid \o "-line-" \o ToString(line_number)

\* The loop of search_in_file from line i on (line_num = i - 1).
RECURSIVE SearchLines(_, _, _, _)
SearchLines(results, lines, i, query_lower) ==
    IF i > Len(lines) THEN results
    ELSE LET parsed == FromSlice(lines[i])
             e == Unwrap(parsed)
             mc == Unwrap(e.message)
             matches ==
                CASE mc.content.kind = "string" ->
                        Contains(ToLowercase(mc.content.str), query_lower)
                  [] mc.content.kind \in {"array", "object"} ->
                        SearchInValue(mc.content, query_lower)
                  [] OTHER -> FALSE
         IN  IF \/ IsNone(parsed)
                \/ e.message_type \notin {"user", "assistant"}
                \/ IsNone(e.message)
                \/ ~matches
             THEN SearchLines(results, lines, i + 1, query_lower)
             ELSE SearchLines(
                    Append(results,
                           ClaudeMessage(UnwrapOr(e.uuid, LineUuid(new_uuid, i)),
                                         UnwrapOr(e.session_id, "unknown-session"),
                                         UnwrapOr(e.timestamp, now),
                                         e.message_type, Some(mc.content), e.tool_use,
                                         e.tool_use_result, mc.usage, Some(mc.role))),
                    lines, i + 1, query_lower)

\* search_in_file(file_path, query): no results from a file that cannot be
\* opened or mapped.
SearchInFile(file, query) ==
    IF ~file.readable THEN << >>
    ELSE SearchLines(<< >>, file.lines, 1, ToLowercase(query))

\* search_messages: the per-file results, concatenated in file order.
RECURSIVE SearchMessages(_, _)
SearchMessages(files, query) ==
    IF files = << >> THEN << >>
    ELSE SearchInFile(files[1], query) \o SearchMessages(Tail(files), query)

\* The messages of the lines of a readable file that parse and convert.
RECURSIVE AcceptedMessages(_, _)
AcceptedMessages(lines, i) ==
    IF i > Len(lines) THEN << >>
    ELSE LET parsed == FromSlice(lines[i])
             converted == TryFrom(Unwrap(parsed), now, new_uuid)
         IN  (IF IsSome(parsed) /\ converted.ok THEN <<converted.value>> ELSE << >>)
                \o AcceptedMessages(lines, i + 1)

\* load_session_messages(file_path): fails if the file is unreadable.
LoadSessionMessages(file) ==
    IF ~file.readable THEN Err("unreadable") ELSE Ok(AcceptedMessages(file.lines, 1))

\* usage.field.unwrap_or(0)
Tokens(usage, field) == UnwrapOr(usage[field], 0)

\* A u32 as two 16-bit halves: 65536 * hi + lo.
HalfWord == 65536

\* The u32 of a counter below 2^31.
ToU32(n) == [hi |-> n \div HalfWord, lo |-> n % HalfWord]

\* a + b on u32: the wrapped sum, and whether the exact sum passes u32::MAX.
AddU32(a, b) ==
    LET lo == a.lo + b.lo
        hi == a.hi + b.hi + (lo \div HalfWord)
    IN  [sum |-> [hi |-> hi % HalfWord, lo |-> lo % HalfWord], overflow |-> hi >= HalfWord]

\* Ord::cmp on u32
GeqU32(a, b) == a.hi > b.hi \/ (a.hi = b.hi /\ a.lo >= b.lo)

\* What the call yields when an addition overflows in a build with overflow
\* checks.
Panic == [ok |-> FALSE, panic |-> "attempt to add with overflow"]

\* total += usage.field.unwrap_or(0) for one of the four totals.
AddField(acc, total, usage, field) ==
    LET added == AddU32(acc[total], ToU32(Tokens(usage, field)))
    IN  [acc EXCEPT ![total] = added.sum, !.overflowed = @ \/ added.overflow]

\* The loop of get_session_token_stats over the messages from position i on.
RECURSIVE TokenTotals(_, _, _)
TokenTotals(messages, i, acc) ==
    IF i > Len(messages) THEN acc
    ELSE LET usage == ExtractTokenUsage(messages[i])
             timestamp == messages[i].timestamp
             a1 == AddField(acc, "total_input_tokens", usage, "input_tokens")
             a2 == AddField(a1, "total_output_tokens", usage, "output_tokens")
             a3 == AddField(a2, "total_cache_creation_tokens", usage,
                            "cache_creation_input_tokens")
             a4 == AddField(a3, "total_cache_read_tokens", usage, "cache_read_input_tokens")
             first_time ==
                IF IsNone(acc.first_time) \/ StrLess(timestamp, Unwrap(acc.first_time))
                THEN Some(timestamp) ELSE acc.first_time
             last_time ==
                IF IsNone(acc.last_time) \/ StrLess(Unwrap(acc.last_time), timestamp)
                THEN Some(timestamp) ELSE acc.last_time
         IN  TokenTotals(messages, i + 1,
                         [a4 EXCEPT !.first_time = first_time, !.last_time = last_time])

\* get_session_token_stats after the load: the totals are u32, so an addition
\* that overflows panics in a build with overflow checks and wraps otherwise.
SessionTokenStats(messages, overflow_checks) ==
    IF messages = << >> THEN Err("No valid messages found in session")
    ELSE LET zero == ToU32(0)
             acc == TokenTotals(messages, 1,
                        [total_input_tokens |-> zero, total_output_tokens |-> zero,
                         total_cache_creation_tokens |-> zero,
                         total_cache_read_tokens |-> zero, overflowed |-> FALSE,
                         first_time |-> None, last_time |-> None])
             s1 == AddU32(acc.total_input_tokens, acc.total_output_tokens)
             s2 == AddU32(s1.sum, acc.total_cache_creation_tokens)
             s3 == AddU32(s2.sum, acc.total_cache_read_tokens)
         IN  IF overflow_checks /\ (acc.overflowed \/ s1.overflow \/ s2.overflow \/ s3.overflow)
             THEN Panic
             ELSE Ok([session_id |-> messages[1].session_id,
                      total_input_tokens |-> acc.total_input_tokens,
                      total_output_tokens |-> acc.total_output_tokens,
                      total_cache_creation_tokens |-> acc.total_cache_creation_tokens,
                      total_cache_read_tokens |-> acc.total_cache_read_tokens,
                      total_tokens |-> s3.sum,
                      message_count |-> Len(messages),
                      first_message_time |-> UnwrapOr(acc.first_time, "unknown"),
                      last_message_time |-> UnwrapOr(acc.last_time, "unknown")])

\* get_session_token_stats(session_path).  The counters of the files walked
\* are small, so no total of theirs overflows in any build.
GetSessionTokenStats(file) ==
    LET loaded == LoadSessionMessages(file)
    IN  IF ~loaded.ok THEN loaded ELSE SessionTokenStats(loaded.value, FALSE)

\* One step of the stable sort_by(|a, b| b.total_tokens.cmp(&a.total_tokens)).
InsertByTokens(sorted, s) ==
    LET k == Cardinality({i \in 1..Len(sorted) : GeqU32(sorted[i].total_tokens, s.total_tokens)})
    IN  SubSeq(sorted, 1, k) \o <<s>> \o SubSeq(sorted, k + 1, Len(sorted))

\* get_project_token_stats: the loop over the session files, a file whose
\* stats fail passed over, then the sort.
RECURSIVE ProjectTokenStats(_, _)
ProjectTokenStats(session_stats, files) ==
    IF files = << >> THEN Ok(session_stats)
    ELSE LET stats == GetSessionTokenStats(files[1])
         IN  ProjectTokenStats(IF stats.ok THEN InsertByTokens(session_stats, stats.value)
                               ELSE session_stats,
                               Tail(files))

\* The token sums of a summary, with the usage of one message added.
AddTokens(dist, usage) ==
    [input |-> dist.input + Tokens(usage, "input_tokens"),
     output |-> dist.output + Tokens(usage, "output_tokens"),
     cache_creation |-> dist.cache_creation + Tokens(usage, "cache_creation_input_tokens"),
     cache_read |-> dist.cache_read + Tokens(usage, "cache_read_input_tokens")]

\* The body of the line loop for a line that parsed and converted: the
\* message is counted, and its tokens when its timestamp parses.
CountMessage(summary, m) ==
    LET counted == [summary EXCEPT !.total_messages = @ + 1]
    IN  IF IsSome(ParseFromRfc3339(m.timestamp))
        THEN [counted EXCEPT !.token_distribution = AddTokens(@, ExtractTokenUsage(m))]
        ELSE counted

\* serde_json::from_str::<RawLogEntry>(&line) and ClaudeMessage::try_from on a
\* line that is text.
LineMessage(line) ==
    IF IsSome(FromSlice(line)) THEN TryFrom(Unwrap(FromSlice(line)), now, new_uuid)
    ELSE Err("parse")

\* get_project_stats_summary, the line loop from line i on: a line that
\* reader.lines() cannot yield ends the command with an error.
RECURSIVE ProjectSummaryLines(_, _, _)
ProjectSummaryLines(summary, lines, i) ==
    IF i > Len(lines) THEN Ok(summary)
    ELSE IF lines[i].kind = "nonutf8" THEN Err("stream did not contain valid UTF-8")
    ELSE ProjectSummaryLines(
            IF LineMessage(lines[i]).ok THEN CountMessage(summary, LineMessage(lines[i]).value)
            ELSE summary,
            lines, i + 1)

\* get_project_stats_summary, the loop over the session files: a file that
\* cannot be opened ends the command with an error.
RECURSIVE ProjectSummaryFiles(_, _)
ProjectSummaryFiles(summary, files) ==
    IF files = << >> THEN Ok(summary)
    ELSE LET counted == [summary EXCEPT !.total_sessions = @ + 1]
             scanned == ProjectSummaryLines(counted, files[1].lines, 1)
         IN  IF ~files[1].readable THEN Err("No such file or directory")
             ELSE IF ~scanned.ok THEN scanned
             ELSE ProjectSummaryFiles(scanned.value, Tail(files))

NoTokens == [input |-> 0, output |-> 0, cache_creation |-> 0, cache_read |-> 0]

\* dist.input + dist.output + dist.cache_creation + dist.cache_read
TotalTokensOf(dist) == dist.input + dist.output + dist.cache_creation + dist.cache_read

\* get_project_stats_summary: sessions, messages and tokens of the summary.
GetProjectStatsSummary(files) ==
    LET walked == ProjectSummaryFiles(
                    [total_sessions |-> 0, total_messages |-> 0, token_distribution |-> NoTokens],
                    files)
        total_tokens == TotalTokensOf(walked.value.token_distribution)
    IN  IF ~walked.ok THEN walked
        ELSE Ok([total_sessions |-> walked.value.total_sessions,
                 total_messages |-> walked.value.total_messages,
                 token_distribution |-> walked.value.token_distribution,
                 total_tokens |-> total_tokens,
                 avg_tokens_per_session |->
                    IF walked.value.total_sessions > 0
                    THEN total_tokens \div walked.value.total_sessions ELSE 0])

\* get_global_stats_summary, the line loop from line i on: a line that
\* reader.lines() cannot yield is passed over.
RECURSIVE GlobalSummaryLines(_, _, _)
GlobalSummaryLines(summary, lines, i) ==
    IF i > Len(lines) THEN summary
    ELSE GlobalSummaryLines(
            IF lines[i].kind /= "nonutf8" /\ LineMessage(lines[i]).ok
            THEN CountMessage(summary, LineMessage(lines[i]).value)
            ELSE summary,
            lines, i + 1)

\* get_global_stats_summary, the loop over the session files of a project: the
\* session is counted, then a file that cannot be opened is passed over.
RECURSIVE GlobalSummaryFiles(_, _)
GlobalSummaryFiles(summary, files) ==
    IF files = << >> THEN summary
    ELSE LET counted == [summary EXCEPT !.total_sessions = @ + 1]
         IN  GlobalSummaryFiles(
                IF ~files[1].readable THEN counted
                ELSE GlobalSummaryLines(counted, files[1].lines, 1),
                Tail(files))

\* get_global_stats_summary over one project directory: projects, sessions,
\* messages and tokens of the summary, and the project's ranking entry.
GetGlobalStatsSummary(files) ==
    LET walked == GlobalSummaryFiles(
                    [total_sessions |-> 0, total_messages |-> 0, token_distribution |-> NoTokens],
                    files)
        total_tokens == TotalTokensOf(walked.token_distribution)
    IN  Ok([total_projects |-> 1,
            total_sessions |-> walked.total_sessions,
            total_messages |-> walked.total_messages,
            token_distribution |-> walked.token_distribution,
            total_tokens |-> total_tokens,
            top_projects |-> <<[sessions |-> walked.total_sessions,
                                messages |-> walked.total_messages,
                                tokens |-> total_tokens]>>])

\* get_recent_edits(project_path, None, None) over the files in walk order:
\* every result the hash-map iterations allow.
GetRecentEdits(files) ==
    RecentEditsOutcomes(Collected([i \in 1..Len(files) |-> ProcessSessionFileForEdits(files[i])]),
                        windows, None, None)

\* The results a command can return when the walk yields `files` in this order.
WalkResults(call, files) ==
    CASE call.command = "get_recent_edits" -> GetRecentEdits(files)
      [] call.command = "search_messages" -> {Ok(SearchMessages(files, call.query))}
      [] call.command = "get_project_token_stats" -> {ProjectTokenStats(<< >>, files)}
      [] call.command = "get_project_stats_summary" -> {GetProjectStatsSummary(files)}
      [] call.command = "get_global_stats_summary" -> {GetGlobalStatsSummary(files)}

\* The session files in the order of the walk.
Walked(order) == [i \in 1..Len(order) |-> tree[order[i]]]

\* A command runs to its end: WalkDir yields the session files in some order.
RunCommand(call) ==
    /\ pc = "start"
    /\ \E order \in Orders(1..Len(tree)) :
          /\ session_files' = order
          /\ result' \in WalkResults(call, Walked(order))
    /\ args' = call
    /\ pc' = "done"
    /\ UNCHANGED <<tree, windows, file_results, scanVars, entryVars>>

RecentEditsCommand == RunCommand([command |-> "get_recent_edits"])

SearchQueries == {<<"P">>, <<"b">>}

SearchMessagesCommand ==
    \E query \in SearchQueries : RunCommand([command |-> "search_messages", query |-> query])

ProjectTokenStatsCommand == RunCommand([command |-> "get_project_token_stats"])

ProjectStatsSummaryCommand == RunCommand([command |-> "get_project_stats_summary"])

GlobalStatsSummaryCommand == RunCommand([command |-> "get_global_stats_summary"])

NextWalk ==
    \/ RecentEditsCommand
    \/ SearchMessagesCommand
    \/ ProjectTokenStatsCommand
    \/ ProjectStatsSummaryCommand
    \/ GlobalStatsSummaryCommand

MaxWalkLines == 3

\* A timestamp of a record, and the reading of the clock as to_rfc3339 gives it.
WalkTimestamp ==
    <<"2", "0", "2", "5", "-", "0", "6", "-", "2", "6", "T", "1", "0", ":", "0", "0", ":", "0", "0", "Z">>
ClockReading ==
    <<"2", "0", "2", "6", "-", "0", "1", "-", "0", "1", "T", "0", "0", ":", "0", "0", ":", "0", "0",
      "+", "0", "0", ":", "0", "0">>

\* A user message without uuid and timestamp, with message-level usage.
UserLine ==
    EntryLine([BlankEntry("user") EXCEPT
        !.session_id = Some("s1"),
        !.message = Some(MessageContent("user", JStr(<<"P", "a">>),
                                        Some(TokenUsage(Some(1), None, None, None, None))))])

\* An assistant record whose tool result edits /p/x.
AssistantEditLine ==
    EntryLine([SingleEditEntry(WalkTimestamp, Some(ProjectDir), <<"/", "p", "/", "x">>, <<"b">>)
                  EXCEPT !.message_type = "assistant", !.uuid = Some("u0")])

WalkLines == {UserLine, AssistantEditLine, BadJsonLine, NonUtf8Line}

\* One or two session files under one project directory, any of which may be
\* impossible to open.
InitWalk ==
    /\ pc = "start"
    /\ \E t \in Trees(WalkLines, MaxWalkLines), unreadable \in SUBSET {1, 2} :
          tree = [i \in 1..Len(t) |-> SessionFile(i \notin unreadable, t[i].lines)]
    /\ args = Idle
    /\ windows = FALSE
    /\ session_files = << >>
    /\ file_results = << >>
    /\ result = Idle
    /\ now = ClockReading
    /\ new_uuid = "u1"
    /\ log_entry = Idle
    /\ message = Idle
    /\ output = Idle
    /\ IdleScan

SpecWalk == InitWalk /\ [][NextWalk]_vars

\* s without its i-th element.
RemoveAt(s, i) == SubSeq(s, 1, i - 1) \o SubSeq(s, i + 1, Len(s))

\* C2: in each of the five tree-walking commands a session file that cannot be
\* opened does not abort the walk: the command returns success, and its result
\* is a result of the same walk over the tree without that file.
C2_UnreadableFileIsSkipped ==
    pc = "done" =>
        \A i \in 1..Len(session_files) :
            ~tree[session_files[i]].readable =>
                /\ result.ok
                /\ result \in WalkResults(args, Walked(RemoveAt(session_files, i)))

\* C3: in get_recent_edits, search_messages, get_project_stats_summary and
\* get_global_stats_summary a line that does not parse as a raw log record is
\* passed over: the command returns no error because of it, and its result is
\* a result of the same walk over the tree without that line.
C3_MalformedLineIsSkipped ==
    (pc = "done" /\ args.command /= "get_project_token_stats") =>
        \A i \in 1..Len(session_files) :
            \A k \in 1..Len(tree[session_files[i]].lines) :
                tree[session_files[i]].lines[k].kind /= "entry" =>
                    /\ (\A j \in 1..Len(tree) : tree[j].readable) => result.ok
                    /\ result \in WalkResults(args,
                                     [Walked(session_files) EXCEPT ![i].lines = RemoveAt(@, k)])

-----------------------------------------------------------------------------
(* One record through search_in_file and through ClaudeMessage::try_from:
   search.rs 36-134, stats.rs try_from *)

JNull == [kind |-> "null"]
JBool(b) == [kind |-> "bool", bool |-> b]

\* The values of message.content: strings (one empty), the scalars that are
\* not strings, and arrays and objects with and without strings inside.
SearchContents ==
    {JStr(<< >>), JStr(<<"P", "a">>), JStr(<<"b">>),
     JNum(1), JNull, JBool(TRUE),
     JArr(<< >>), JArr(<<JNum(1)>>), JArr(<<JNum(1), JStr(<<"b">>)>>),
     JArr(<<JObj("text" :> JStr(<<"P", "a">>))>>),
     JObj("text" :> JNull), JObj("p" :> JStr(<<"x">>)),
     JObj("p" :> JArr(<<JStr(<<"a", "P">>)>>))}

\* The queries: empty, lower case, mixed case, and one no content holds.
Queries == {<< >>, <<"p">>, <<"P", "a">>, <<"y">>}

\* A JSON line holds a string in uuid, sessionId and timestamp, or lacks the
\* field; the string may be empty.  toolUseResult holds text of its own.
SearchEntries ==
    {[BlankEntry(type) EXCEPT !.uuid = uuid, !.session_id = session_id,
                              !.timestamp = timestamp, !.message = msg,
                              !.tool_use_result = tur] :
        type \in {"summary", "system", "user", "assistant"},
        uuid \in Option({"u0", ""}), session_id \in Option({"s1", ""}),
        timestamp \in Option({<<"1">>, << >>}),
        msg \in Option({MessageContent("user", c, None) : c \in SearchContents}),
        tur \in Option({JObj("stdout" :> JStr(<<"P", "a">>))})}

\* search_in_file on a file whose only line is the record.
SearchRecord ==
    /\ pc = "start"
    /\ result' = SearchInFile(SessionFile(TRUE, <<EntryLine(log_entry)>>), args.query)
    /\ pc' = "searched"
    /\ UNCHANGED <<log_entry, now, new_uuid, message, output, scanVars>>
    /\ UNCHANGED <<tree, args, windows, session_files, file_results>>

NextSearch == SearchRecord \/ Canonicalize

InitSearch ==
    /\ pc = "start"
    /\ log_entry \in SearchEntries
    /\ \E query \in Queries : args = [query |-> query]
    /\ now = <<"2">>
    /\ new_uuid = "u1"
    /\ message = Idle
    /\ output = Idle
    /\ IdleScan
    /\ tree = Idle /\ windows = Idle /\ session_files = Idle
    /\ file_results = Idle /\ result = Idle

SpecSearch == InitSearch /\ [][NextSearch]_vars

\* C11: every canonical message that try_from or search_in_file produces has
\* a non-empty uuid, a non-empty session id and a non-empty timestamp.
NonEmptyIdentity(m) == m.uuid /= "" /\ m.session_id /= "" /\ m.timestamp /= << >>

C11_NonEmptyIdentity ==
    /\ (pc = "done" /\ output.ok) => NonEmptyIdentity(output.value)
    /\ pc = "searched" => \A i \in 1..Len(result) : NonEmptyIdentity(result[i])

\* C12: search returns nothing for a record that lacks both session id and
\* timestamp, and nothing for a summary record.
C12_SearchRejectsMissingIdentity ==
    (pc = "searched" /\ (MissingIdentity(log_entry) \/ log_entry.message_type = "summary"))
        => result = << >>

\* Every string held anywhere in a JSON value.
RECURSIVE StringsIn(_)
StringsIn(value) ==
    CASE value.kind = "string" -> {value.str}
      [] value.kind = "array" -> UNION {StringsIn(value.items[i]) : i \in 1..Len(value.items)}
      [] value.kind = "object" -> UNION {StringsIn(value.fields[k]) : k \in DOMAIN value.fields}
      [] OTHER -> {}

SearchedContent == Unwrap(log_entry.message).content

Searchable == log_entry.message_type \in {"user", "assistant"} /\ IsSome(log_entry.message)

ShouldMatch ==
    /\ Searchable
    /\ \E s \in StringsIn(SearchedContent) :
            Contains(ToLowercase(s), ToLowercase(args.query))

\* C18: the record is returned iff its type is user or assistant, it has a
\* message, and a string of its content contains the query, both in lower
\* case; the empty query returns exactly the records whose content holds a
\* string.
C18_SearchMatches ==
    pc = "searched" =>
        /\ Len(result) = (IF ShouldMatch THEN 1 ELSE 0)
        /\ ShouldMatch => result[1].content = Some(SearchedContent)
        /\ args.query = << >> =>
              (result /= << >> <=> (Searchable /\ StringsIn(SearchedContent) /= {}))

C18_Witness ==
    /\ pc = "searched"
    /\ args.query = <<"p">>
    /\ IsSome(log_entry.message)
    /\ SearchedContent = JArr(<<JObj("text" :> JStr(<<"P", "a">>))>>)
    /\ Len(result) = 1

-----------------------------------------------------------------------------
(* Deserialisation of one JSON object into a RawLogEntry: the Deserialize
   impls serde derives for the structs of models/message.rs *)

\* Deserialize::deserialize for the type named, defined below.
RECURSIVE De(_, _)

\* A field of type Option<T>: None when the key is absent or holds null.
DeOption(fields, key, type) ==
    IF key \notin DOMAIN fields \/ fields[key].kind = "null" THEN Ok(None)
    ELSE LET r == De(type, fields[key]) IN IF r.ok THEN Ok(Some(r.value)) ELSE r

\* A field of a type that is not an Option and has no serde default.
DeRequired(fields, key, type) ==
    IF key \notin DOMAIN fields THEN Err("missing field") ELSE De(type, fields[key])

DeString(v) == IF v.kind = "string" THEN Ok(v.str) ELSE Err("invalid type")

DeValue(v) == Ok(v)

DeU32(v) ==
    IF v.kind = "number" /\ v.num >= 0 /\ HighWord(v) = 0 THEN Ok(v.num)
    ELSE Err("invalid value")

\* struct TokenUsage
DeTokenUsage(v) ==
    IF v.kind /= "object" THEN Err("invalid type")
    ELSE LET f == v.fields
             input == DeOption(f, "input_tokens", "u32")
             out == DeOption(f, "output_tokens", "u32")
             creation == DeOption(f, "cache_creation_input_tokens", "u32")
             read == DeOption(f, "cache_read_input_tokens", "u32")
             tier == DeOption(f, "service_tier", "string")
         IN  IF input.ok /\ out.ok /\ creation.ok /\ read.ok /\ tier.ok
             THEN Ok(TokenUsage(input.value, out.value, creation.value, read.value,
                                tier.value))
             ELSE Err("invalid usage")

\* struct MessageContent: role and content are not Options.
DeMessageContent(v) ==
    IF v.kind /= "object" THEN Err("invalid type")
    ELSE LET role == DeRequired(v.fields, "role", "string")
             content == DeRequired(v.fields, "content", "value")
             usage == DeOption(v.fields, "usage", "usage")
         IN  IF role.ok /\ content.ok /\ usage.ok
             THEN Ok(MessageContent(role.value, content.value, usage.value))
             ELSE Err("invalid message")

De(type, v) ==
    CASE type = "string" -> DeString(v)
      [] type = "value" -> DeValue(v)
      [] type = "u32" -> DeU32(v)
      [] type = "usage" -> DeTokenUsage(v)
      [] type = "message" -> DeMessageContent(v)

\* struct RawLogEntry: message_type ("type") is not an Option; keys that name
\* no field are skipped.
DeRawLogEntry(v) ==
    IF v.kind /= "object" THEN Err("invalid type")
    ELSE LET f == v.fields
             uuid == DeOption(f, "uuid", "string")
             session_id == DeOption(f, "sessionId", "string")
             timestamp == DeOption(f, "timestamp", "string")
             message_type == DeRequired(f, "type", "string")
             msg == DeOption(f, "message", "message")
             tool_use == DeOption(f, "toolUse", "value")
             tool_use_result == DeOption(f, "toolUseResult", "value")
             cwd == DeOption(f, "cwd", "string")
         IN  IF /\ uuid.ok /\ session_id.ok /\ timestamp.ok /\ message_type.ok
                /\ msg.ok /\ tool_use.ok /\ tool_use_result.ok /\ cwd.ok
             THEN Ok([uuid |-> uuid.value, session_id |-> session_id.value,
                      timestamp |-> timestamp.value,
                      message_type |-> message_type.value, message |-> msg.value,
                      tool_use |-> tool_use.value,
                      tool_use_result |-> tool_use_result.value, cwd |-> cwd.value])
             ELSE Err("invalid entry")

\* serde_json::from_str::<RawLogEntry>(line) on a line that holds a JSON object.
ParseLine ==
    /\ pc = "start"
    /\ output' = DeRawLogEntry(data)
    /\ pc' = "parsed"
    /\ UNCHANGED <<data, start, memchr_pos, ranges, walkVars>>
    /\ UNCHANGED <<log_entry, now, new_uuid, message>>

NextParse == ParseLine

\* The fields of a message payload, with the value each holds when present,
\* and a key no struct names.
PayloadValues ==
    [role |-> JStr("user"), content |-> JStr(<<"a">>),
     usage |-> JObj("input_tokens" :> JNum(1)), futureField |-> JNum(1)]

MessagePayloads == {JObj([k \in K |-> PayloadValues[k]]) : K \in SUBSET DOMAIN PayloadValues}

\* The fields of a line, likewise.
LineValues ==
    [uuid |-> JStr("u0"), sessionId |-> JStr("s1"), timestamp |-> JStr(<<"1">>),
     type |-> JStr("user"), message |-> JNull, cwd |-> JStr(<<"/", "p">>),
     toolUseResult |-> JObj("type" :> JStr("create")), futureField |-> JNum(1)]

\* Every subset of the fields, well typed; uuid may hold null.
JsonLines ==
    {JObj([k \in K |-> CASE k = "message" -> msg [] k = "uuid" -> uuid
                         [] OTHER -> LineValues[k]]) :
        K \in SUBSET DOMAIN LineValues, msg \in MessagePayloads,
        uuid \in {LineValues.uuid, JNull}}

InitParse ==
    /\ pc = "start"
    /\ data \in JsonLines
    /\ start = Idle /\ memchr_pos = Idle /\ ranges = Idle
    /\ IdleWalk
    /\ IdleEntry

SpecParse == InitParse /\ [][NextParse]_vars

\* C13: deserialising a JSON object into a RawLogEntry succeeds whichever of
\* the known fields, of the line and of its message payload, are present.
C13_ParseSucceeds == pc = "parsed" => output.ok

-----------------------------------------------------------------------------
(* Session duration: stats.rs 267-297 (get_project_stats_summary) and 629-665
   (get_global_stats_summary).  A timestamp is a number of seconds. *)

SESSION_BREAK_THRESHOLD_MINUTES == 120

SecondsPerMinute == 60

\* TimeDelta::num_minutes of a difference that is not negative: whole minutes.
NumMinutes(seconds) == seconds \div SecondsPerMinute

\* session_timestamps.sort()
RECURSIVE SortTimestamps(_)
SortTimestamps(ts) ==
    IF ts = << >> THEN << >>
    ELSE LET least == CHOOSE i \in 1..Len(ts) : \A j \in 1..Len(ts) : ts[i] <= ts[j]
         IN  <<ts[least]>> \o SortTimestamps(RemoveAt(ts, least))

\* The loop over consecutive pairs from index i on, then the close of the
\* final period.  starts records the values current_period_start takes.
RECURSIVE SegmentLoop(_, _, _, _, _)
SegmentLoop(ts, i, current_period_start, total, starts) ==
    IF i > Len(ts) - 1
    THEN [minutes |-> total + Max(NumMinutes(ts[Len(ts)] - current_period_start), 1),
          starts |-> starts]
    ELSE LET current == ts[i]
             next == ts[i + 1]
             gap_minutes == NumMinutes(next - current)
             period_duration == NumMinutes(current - current_period_start)
         IN  IF gap_minutes > SESSION_BREAK_THRESHOLD_MINUTES
             THEN SegmentLoop(ts, i + 1, next, total + Max(period_duration, 1),
                              Append(starts, next))
             ELSE SegmentLoop(ts, i + 1, current_period_start, total, starts)

\* The minutes a session adds: none without a timestamp, 1 for one timestamp.
SessionMinutes(session_timestamps) ==
    IF Len(session_timestamps) >= 2
    THEN LET sorted == SortTimestamps(session_timestamps)
         IN  SegmentLoop(sorted, 1, sorted[1], 0, <<sorted[1]>>)
    ELSE IF Len(session_timestamps) = 1
    THEN [minutes |-> 1, starts |-> session_timestamps]
    ELSE [minutes |-> 0, starts |-> << >>]

\* get_project_stats_summary: session_durations.push(...) for a session that
\* has a timestamp.
ProjectSessionDuration ==
    /\ pc = "start"
    /\ LET d == SessionMinutes(data)
       IN  result' = [session_durations |-> IF data = << >> THEN << >> ELSE <<d.minutes>>,
                      minutes |-> d.minutes, starts |-> d.starts]
    /\ pc' = "project"
    /\ UNCHANGED <<scanVars, entryVars>>
    /\ UNCHANGED <<tree, args, windows, session_files, file_results>>

\* get_global_stats_summary: summary.total_session_duration_minutes += ...
GlobalSessionDuration ==
    /\ pc = "start"
    /\ LET d == SessionMinutes(data)
       IN  result' = [total_session_duration_minutes |-> 0 + d.minutes,
                      minutes |-> d.minutes, starts |-> d.starts]
    /\ pc' = "global"
    /\ UNCHANGED <<scanVars, entryVars>>
    /\ UNCHANGED <<tree, args, windows, session_files, file_results>>

NextDuration == ProjectSessionDuration \/ GlobalSessionDuration

MaxTimestamps == 3

\* Seconds since the first message: half a minute, a minute, 120 minutes,
\* 120 minutes 30 seconds, 121 minutes, 150 minutes.
Instants == {0, 30, 60, 7200, 7230, 7260, 9000}

InitDuration ==
    /\ pc = "start"
    /\ data \in SeqsUpTo(Instants, MaxTimestamps)
    /\ start = Idle /\ memchr_pos = Idle /\ ranges = Idle
    /\ IdleWalk
    /\ IdleEntry

SpecDuration == InitDuration /\ [][NextDuration]_vars

Measured == pc \in {"project", "global"}

\* The indices at which an active period of the sorted list begins: the first,
\* and each one that follows a gap above the threshold.
PeriodStarts(s) ==
    {i \in 1..Len(s) :
        i = 1 \/ s[i] - s[i - 1] > SESSION_BREAK_THRESHOLD_MINUTES * SecondsPerMinute}

\* The index at which the period beginning at p ends.
PeriodEnd(s, p) ==
    CHOOSE e \in p..Len(s) :
        /\ \A i \in (p + 1)..e : i \notin PeriodStarts(s)
        /\ e = Len(s) \/ (e + 1) \in PeriodStarts(s)

RECURSIVE SumOver(_, _)
SumOver(S, f) ==
    IF S = {} THEN 0 ELSE LET x == CHOOSE y \in S : TRUE IN f[x] + SumOver(S \ {x}, f)

ActiveDuration(s) ==
    SumOver(PeriodStarts(s),
            [p \in PeriodStarts(s) |-> Max(1, (s[PeriodEnd(s, p)] - s[p]) \div SecondsPerMinute)])

\* C14: the minutes a session contributes are the sum, over its active
\* periods, of max(1, whole minutes from the period's first timestamp to its
\* last); a session without a timestamp contributes nothing.
C14_ActiveDuration ==
    Measured =>
        /\ result.minutes = ActiveDuration(SortTimestamps(data))
        /\ data = << >> => result.minutes = 0
        /\ pc = "project" =>
              result.session_durations = (IF data = << >> THEN << >> ELSE <<result.minutes>>)

\* C15: a new active period starts exactly at the timestamps that follow a
\* gap of more than 120 minutes, the gap measured in the timestamps' own unit.
C15_BreakAboveThreshold ==
    Measured =>
        LET s == SortTimestamps(data)
        IN  Range(result.starts) = {s[i] : i \in PeriodStarts(s)}

-----------------------------------------------------------------------------
(* get_session_token_stats on the messages of one session: stats.rs 80-132 *)

\* The rest of get_session_token_stats once load_session_messages has
\* returned the messages, in a build with or without overflow checks.
SessionStats ==
    /\ pc = "start"
    /\ \E overflow_checks \in BOOLEAN : output' = SessionTokenStats(message, overflow_checks)
    /\ pc' = "stats"
    /\ UNCHANGED <<log_entry, now, new_uuid, message, scanVars, walkVars>>

NextSession == SessionStats

MaxMessages == 3

\* The largest counter below 2^31.
LargeCount == 2147483647

\* Message-level usage: absent, the counters 100 and 200, counters of which
\* one is large.
SessionUsages ==
    {None, Some(TokenUsage(Some(100), Some(200), None, None, None)),
     Some(TokenUsage(Some(LargeCount), None, Some(1), Some(2), None))}

\* Timestamps whose order as strings is "1" < "10" < "2".
SessionTimestamps == {<<"1">>, <<"1", "0">>, <<"2">>}

SessionMessages ==
    {ClaudeMessage("u0", "s1", timestamp, IF IsSome(usage) THEN "assistant" ELSE "user",
                   None, None, None, usage, None) :
        timestamp \in SessionTimestamps, usage \in SessionUsages}

InitSession ==
    /\ pc = "start"
    /\ message \in SeqsUpTo(SessionMessages, MaxMessages)
    /\ log_entry = Idle
    /\ now = Idle
    /\ new_uuid = Idle
    /\ output = Idle
    /\ IdleScan
    /\ IdleWalk

SpecSession == InitSession /\ [][NextSession]_vars

\* The sum of the counters of one field, as a number 65536 * hi + lo whose hi
\* is not bounded.
RECURSIVE ExactTotal(_, _)
ExactTotal(messages, field) ==
    IF messages = << >> THEN [hi |-> 0, lo |-> 0]
    ELSE LET rest == ExactTotal(Tail(messages), field)
             n == Tokens(ExtractTokenUsage(messages[1]), field)
             lo == rest.lo + (n % HalfWord)
         IN  [hi |-> rest.hi + (n \div HalfWord) + (lo \div HalfWord), lo |-> lo % HalfWord]

ExactSumOfFour(a, b, c, d) ==
    LET lo == a.lo + b.lo + c.lo + d.lo
    IN  [hi |-> a.hi + b.hi + c.hi + d.hi + (lo \div HalfWord), lo |-> lo % HalfWord]

LeastTimestamp(messages) ==
    CHOOSE t \in {m.timestamp : m \in Range(messages)} :
        \A m \in Range(messages) : ~StrLess(m.timestamp, t)

GreatestTimestamp(messages) ==
    CHOOSE t \in {m.timestamp : m \in Range(messages)} :
        \A m \in Range(messages) : ~StrLess(t, m.timestamp)

\* C16: get_session_token_stats fails for a session without messages;
\* otherwise each total is the sum of the messages' counters, total_tokens is
\* the sum of the four totals, message_count is the number of messages, and
\* the first and last message times are the least and greatest timestamp.
C16_SessionTotals ==
    pc = "stats" =>
        IF message = << >> THEN ~output.ok
        ELSE /\ output.ok
             /\ LET stats == output.value
                    input == ExactTotal(message, "input_tokens")
                    out == ExactTotal(message, "output_tokens")
                    creation == ExactTotal(message, "cache_creation_input_tokens")
                    read == ExactTotal(message, "cache_read_input_tokens")
                IN  /\ stats.total_input_tokens = input
                    /\ stats.total_output_tokens = out
                    /\ stats.total_cache_creation_tokens = creation
                    /\ stats.total_cache_read_tokens = read
                    /\ stats.total_tokens = ExactSumOfFour(input, out, creation, read)
                    /\ stats.message_count = Len(message)
                    /\ stats.first_message_time = LeastTimestamp(message)
                    /\ stats.last_message_time = GreatestTimestamp(message)

-----------------------------------------------------------------------------
(* Daily statistics: stats.rs 215-225 and 305-312 (get_project_stats_summary),
   569-577 and 708-709 (get_global_stats_summary).  tree gives, for each
   calendar date, the number of accepted messages of the walked files whose
   timestamp parses and falls on that date. *)

\* DailyStats { date, ..Default::default() } and the message_count += 1 of
\* each message of the date.
DailyEntry(date, message_count) ==
    [date |-> date, message_count |-> message_count, session_count |-> 0,
     active_hours |-> 0]

\* daily_stats_map after the walk: an entry for each date that has a message.
DailyStatsMap(counts) == {DailyEntry(d, counts[d]) : d \in {x \in DOMAIN counts : counts[x] > 0}}

\* session_dates after the walk
SessionDates(counts) == {d \in DOMAIN counts : counts[d] > 0}

\* if message_count > 0 { min(24, max(1, message_count / 10)) } else { 0 }
ActiveHours(message_count) ==
    IF message_count > 0 THEN Min(24, Max(1, message_count \div 10)) ELSE 0

\* into_values().collect() followed by sort_by(|a, b| a.date.cmp(&b.date))
SortByDate(entries) ==
    CHOOSE p \in Orders(entries) :
        \A i, j \in 1..Len(p) : i < j => StrLess(p[i].date, p[j].date)

\* get_project_stats_summary: the loop over daily_stats_map.iter_mut() sets
\* session_count and active_hours before the entries are collected.
ProjectDailyStats ==
    /\ pc = "start"
    /\ LET session_dates == SessionDates(tree)
           finished == {[e EXCEPT !.session_count =
                                    Cardinality({d \in session_dates : d = e.date}),
                                  !.active_hours = ActiveHours(e.message_count)] :
                          e \in DailyStatsMap(tree)}
       IN  result' = Ok([daily_stats |-> SortByDate(finished)])
    /\ pc' = "project"
    /\ UNCHANGED <<tree, args, windows, session_files, file_results, scanVars, entryVars>>

\* get_global_stats_summary: the entries are collected as the walk left them.
GlobalDailyStats ==
    /\ pc = "start"
    /\ result' = Ok([daily_stats |-> SortByDate(DailyStatsMap(tree))])
    /\ pc' = "global"
    /\ UNCHANGED <<tree, args, windows, session_files, file_results, scanVars, entryVars>>

NextDaily == ProjectDailyStats \/ GlobalDailyStats

Dates ==
    {<<"2", "0", "2", "5", "-", "0", "6", "-", "2", "5">>,
     <<"2", "0", "2", "5", "-", "0", "6", "-", "2", "6">>}

\* Messages on one date: none, and counts on both sides of 10, 20, 240, 250.
MessageCounts == {0, 1, 9, 10, 19, 20, 239, 240, 249, 250, 1000}

InitDaily ==
    /\ pc = "start"
    /\ tree \in [Dates -> MessageCounts]
    /\ args = Idle /\ windows = Idle /\ session_files = Idle
    /\ file_results = Idle /\ result = Idle
    /\ IdleScan
    /\ IdleEntry

SpecDaily == InitDaily /\ [][NextDaily]_vars

\* message_count div 10 held between 1 and 24, and 0 for no message.
ClampedHours(message_count) ==
    IF message_count = 0 THEN 0
    ELSE IF message_count < 10 THEN 1
    ELSE IF message_count >= 240 THEN 24
    ELSE message_count \div 10

\* C17: every DailyStats entry that get_project_stats_summary or
\* get_global_stats_summary returns has active_hours = min(24, max(1,
\* message_count div 10)) when it has a message, and 0 otherwise.
C17_ActiveHours ==
    pc \in {"project", "global"} =>
        \A i \in 1..Len(result.value.daily_stats) :
            LET e == result.value.daily_stats[i]
            IN  e.active_hours = ClampedHours(e.message_count)

-----------------------------------------------------------------------------
(* restore_file: edits.rs 291-329, fs_utils.rs atomic_rename.  A path is a
   sequence of characters; NUL stands for the character U+0000 and Drive for a
   drive prefix such as C: (a prefix on Windows, part of a name elsewhere).
   tree is the part of the file system the call touches: whether the parent
   directory of the target exists, and the contents of the target and of the
   temporary file, if they exist. *)

NUL == "NUL"
Drive == "C:"

\* str::split('/') of the characters from position i on, cur being the
\* segment read so far.
RECURSIVE SplitPath(_, _, _)
SplitPath(p, i, cur) ==
    IF i > Len(p) THEN <<cur>>
    ELSE IF p[i] = "/" THEN <<cur>> \o SplitPath(p, i + 1, << >>)
    ELSE SplitPath(p, i + 1, Append(cur, p[i]))

\* The path without its drive prefix, where the build has prefixes.
AfterPrefix(p) == IF windows /\ p /= << >> /\ p[1] = Drive THEN Tail(p) ELSE p

HasPrefix(p) == windows /\ p /= << >> /\ p[1] = Drive

HasRoot(p) == AfterPrefix(p) /= << >> /\ AfterPrefix(p)[1] = "/"

\* Path::is_absolute: a root, and on Windows a prefix as well.
IsAbsolute(p) == HasRoot(p) /\ (windows => HasPrefix(p))

\* Path::components after the prefix and the root: empty segments and `.`
\* are dropped (a leading `.` of a path without root is kept as CurDir), `..`
\* is ParentDir, every other segment is Normal.
RECURSIVE SegmentComponents(_, _)
SegmentComponents(segments, leading) ==
    IF segments = << >> THEN << >>
    ELSE LET s == segments[1]
             rest == SegmentComponents(Tail(segments), FALSE)
         IN  IF s = << >> THEN SegmentComponents(Tail(segments), leading)
             ELSE IF s = <<".">> THEN (IF leading THEN <<[kind |-> "CurDir"]>> ELSE << >>) \o rest
             ELSE IF s = <<".", ".">> THEN <<[kind |-> "ParentDir"]>> \o rest
             ELSE <<[kind |-> "Normal", name |-> s]>> \o rest

Components(p) ==
    (IF HasPrefix(p) THEN <<[kind |-> "Prefix"]>> ELSE << >>)
        \o (IF HasRoot(p) THEN <<[kind |-> "RootDir"]>> ELSE << >>)
        \o SegmentComponents(SplitPath(AfterPrefix(p), 1, << >>), ~HasRoot(p) /\ ~HasPrefix(p))

\* A validation that lets parent-directory components through.
HasParentDir_Never(p) == FALSE

\* for component in path.components() { if let ParentDir = component ...
HasParentDir(p) == \E i \in 1..Len(Components(p)) : Components(p)[i].kind = "ParentDir"

\* Path::file_name: the last component, if it is a normal one.
HasFileName(p) ==
    Components(p) /= << >> /\ Components(p)[Len(Components(p))].kind = "Normal"

\* Path::parent: None for a path that ends in a root or prefix, or is empty.
HasParent(p) ==
    Components(p) /= << >>
        /\ Components(p)[Len(Components(p))].kind \in {"Normal", "CurDir", "ParentDir"}

\* The three security validations, in order.
Validate ==
    /\ pc = "start"
    /\ IF Contains(args.file_path, <<NUL>>)
       THEN result' = Err("Invalid file path: contains null bytes") /\ pc' = "done"
       ELSE IF ~IsAbsolute(args.file_path)
       THEN result' = Err("Invalid file path: must be an absolute path") /\ pc' = "done"
       ELSE IF HasParentDir(args.file_path)
       THEN result' = Err("Invalid file path: path traversal not allowed") /\ pc' = "done"
       ELSE result' = result /\ pc' = "create_dir_all"
    /\ UNCHANGED <<tree, args, windows, session_files, file_results, scanVars, entryVars>>

\* fs::create_dir_all(parent): succeeds on a directory that exists; creating
\* it may fail.
CreateDirAll ==
    /\ pc = "create_dir_all"
    /\ \/ /\ ~HasParent(args.file_path)
          /\ pc' = "write"
          /\ UNCHANGED <<tree, result>>
       \/ /\ HasParent(args.file_path)
          /\ tree' = [tree EXCEPT !.parent = TRUE]
          /\ pc' = "write"
          /\ UNCHANGED result
       \/ /\ HasParent(args.file_path)
          /\ ~tree.parent
          /\ result' = Err("Failed to create directories")
          /\ pc' = "done"
          /\ UNCHANGED tree
    /\ UNCHANGED <<args, windows, session_files, file_results, scanVars, entryVars>>

\* The proper prefixes of a content: what a write that fails has written.
PartialWrites(content) == {SubSeq(content, 1, k) : k \in 0..(Len(content) - 1)}

\* After a write of the temporary file, atomic_rename first removes the target
\* on Windows if it exists.
AfterWrite == IF windows /\ IsSome(tree.target) THEN "remove_target" ELSE "rename"

\* fs::write(&temp_path, &content): File::create, then write_all.  The file
\* cannot be created at a path without a file name; creating it and writing
\* it may fail, the latter leaving what was written.
WriteTemp ==
    /\ pc = "write"
    /\ \/ /\ result' = Err("Failed to write temporary file")
          /\ pc' = "done"
          /\ UNCHANGED tree
       \/ /\ HasFileName(args.file_path)
          /\ \E written \in PartialWrites(args.content) :
                tree' = [tree EXCEPT !.temp = Some(written)]
          /\ result' = Err("Failed to write temporary file")
          /\ pc' = "done"
       \/ /\ HasFileName(args.file_path)
          /\ tree' = [tree EXCEPT !.temp = Some(args.content)]
          /\ pc' = AfterWrite
          /\ UNCHANGED result
    /\ UNCHANGED <<args, windows, session_files, file_results, scanVars, entryVars>>

\* atomic_rename on Windows: fs::remove_file(to) when to.exists(); its failure
\* is returned.
RemoveTarget ==
    /\ pc = "remove_target"
    /\ \/ /\ tree' = [tree EXCEPT !.target = None]
          /\ pc' = "rename"
          /\ UNCHANGED result
       \/ /\ result' = Err("Failed to remove existing file")
          /\ pc' = "done"
          /\ UNCHANGED tree
    /\ UNCHANGED <<args, windows, session_files, file_results, scanVars, entryVars>>

\* fs::rename(from, to); on failure `let _ = fs::remove_file(from)`, which
\* may itself fail, and the error of the rename is returned.
Rename ==
    /\ pc = "rename"
    /\ \/ /\ tree' = [tree EXCEPT !.target = tree.temp, !.temp = None]
          /\ result' = Ok("unit")
       \/ /\ tree' = [tree EXCEPT !.temp = None]
          /\ result' = Err("Failed to rename")
       \/ /\ UNCHANGED tree
          /\ result' = Err("Failed to rename")
    /\ pc' = "done"
    /\ UNCHANGED <<args, windows, session_files, file_results, scanVars, entryVars>>

NextRestore == Validate \/ CreateDirAll \/ WriteTemp \/ RemoveTarget \/ Rename

MaxPathLen == 5

PathChars == {"/", ".", "a", NUL, Drive}

\* The states of the directory: absent; or present, with or without the
\* target and with or without a temporary file left there earlier.
FileSystems ==
    {[parent |-> FALSE, target |-> None, temp |-> None]}
        \cup {[parent |-> TRUE, target |-> target, temp |-> temp] :
                target \in Option({<<"p">>}), temp \in Option({<<"q">>})}

InitRestore ==
    /\ pc = "start"
    /\ tree \in FileSystems
    /\ \E file_path \in SeqsUpTo(PathChars, MaxPathLen) :
          args = [file_path |-> file_path, content |-> <<"x", "y">>]
    /\ windows \in BOOLEAN
    /\ session_files = Idle /\ file_results = Idle /\ result = Idle
    /\ IdleScan
    /\ IdleEntry

SpecRestore == InitRestore /\ [][NextRestore]_vars

HasNul(p) == \E i \in 1..Len(p) : p[i] = NUL

\* A `..` between separators or the ends of the path.
HasDotDot(p) ==
    \E i \in 1..(Len(p) - 1) :
        /\ p[i] = "." /\ p[i + 1] = "."
        /\ i = 1 \/ p[i - 1] = "/" \/ (i = 2 /\ HasPrefix(p))
        /\ i + 1 = Len(p) \/ p[i + 2] = "/"

Insecure(p) == HasNul(p) \/ ~IsAbsolute(p) \/ HasDotDot(p)

DescriptiveErrors ==
    {Err("Invalid file path: contains null bytes"),
     Err("Invalid file path: must be an absolute path"),
     Err("Invalid file path: path traversal not allowed")}

\* C19: for a path that holds a null byte, is not absolute or has a `..`
\* component, the first step of restore_file ends the call with one of the
\* validation errors and leaves the file system as it was.
C19_ValidationRejects ==
    [][(pc = "start" /\ Insecure(args.file_path))
          => (pc' = "done" /\ result' \in DescriptiveErrors /\ tree' = tree)]_vars

C19_Witness ==
    /\ pc = "done"
    /\ args.file_path = <<"/", "a", "/", ".", ".">>
    /\ result = Err("Invalid file path: path traversal not allowed")
    /\ tree = [parent |-> FALSE, target |-> None, temp |-> None]

\* C20: when restore_file has returned, with an error after its validation
\* passed or with success, the temporary file does not exist.
C20_NoTempFileLeft ==
    (pc = "done" /\ ~Insecure(args.file_path)) => tree.temp = None

\* C21: a target that exists keeps its content in every step of restore_file
\* except the one that completes the call successfully, after which the target
\* holds the new content; so a target that existed before the call is never
\* absent or partial during the call or after a failed call.
C21_TargetNeverLost ==
    [][/\ IsSome(tree.target) =>
             \/ tree'.target = tree.target
             \/ pc' = "done" /\ result'.ok /\ tree'.target = Some(args.content)
       /\ (pc' = "done" /\ result'.ok) => tree'.target = Some(args.content)]_vars

-----------------------------------------------------------------------------
\* extract_project_name (utils.rs 49-60): the display name of a project
\* directory.  A name is a sequence of characters; data is the raw name.

\* The parts of str.splitn(n, '-') when every '-' splits (str.split('-')).
RECURSIVE SplitN_EveryDash(_, _)
SplitN_EveryDash(s, n) ==
    IF \E i \in 1..Len(s) : s[i] = "-"
    THEN LET i == CHOOSE k \in 1..Len(s) : s[k] = "-" /\ \A j \in 1..(k - 1) : s[j] /= "-"
         IN  <<SubSeq(s, 1, i - 1)>> \o SplitN_EveryDash(SubSeq(s, i + 1, Len(s)), n)
    ELSE <<s>>

\* str.splitn(n, '-'): at most n parts, the last one holding the rest of s.
RECURSIVE SplitN(_, _)
SplitN(s, n) ==
    IF n = 0 THEN << >>
    ELSE IF n > 1 /\ \E i \in 1..Len(s) : s[i] = "-"
    THEN LET i == CHOOSE k \in 1..Len(s) : s[k] = "-" /\ \A j \in 1..(k - 1) : s[j] /= "-"
         IN  <<SubSeq(s, 1, i - 1)>> \o SplitN(SubSeq(s, i + 1, Len(s)), n - 1)
    ELSE <<s>>

StartsWithDash(s) == Len(s) > 0 /\ s[1] = "-"

extract_project_name(raw_project_name) ==
    IF StartsWithDash(raw_project_name)
    THEN LET parts == SplitN(raw_project_name, 4)
         IN  IF Len(parts) = 4 THEN parts[4] ELSE raw_project_name
    ELSE raw_project_name

ExtractProjectName ==
    /\ pc = "start"
    /\ pc' = "named"
    /\ output' = extract_project_name(data)
    /\ UNCHANGED <<data, start, memchr_pos, ranges, walkVars, log_entry, now, new_uuid, message>>

NextName == ExtractProjectName

MaxNameLen == 7
NameChars == {"-", "a", "b"}

InitName ==
    /\ pc = "start"
    /\ data \in SeqsUpTo(NameChars, MaxNameLen)
    /\ start = Idle /\ memchr_pos = Idle /\ ranges = Idle
    /\ IdleWalk
    /\ IdleEntry

SpecName == InitName /\ [][NextName]_vars

Dashes(s) == {i \in 1..Len(s) : s[i] = "-"}
ThirdDash(s) == CHOOSE i \in Dashes(s) : Cardinality({j \in Dashes(s) : j < i}) = 2

\* s is "-U-D-P" for some non-empty U, D and P (which may hold dashes).
ClaudePathFormat(s) ==
    \E j, k \in 1..Len(s) :
        /\ s[1] = "-" /\ s[j] = "-" /\ s[k] = "-"
        /\ 2 < j /\ j + 1 < k /\ k < Len(s)

\* C22: extract_project_name returns what follows the third '-' of a name that
\* starts with '-' and holds at least three of them, and the name itself in
\* every other case; the result for "-U-D-P" with non-empty U, D, P is not empty.
C22_ExtractProjectName ==
    pc = "named" =>
        /\ output = IF StartsWithDash(data) /\ Cardinality(Dashes(data)) >= 3
                    THEN SubSeq(data, ThirdDash(data) + 1, Len(data))
                    ELSE data
        /\ ClaudePathFormat(data) => output /= << >>

C22_Witness ==
    /\ pc = "named"
    /\ ClaudePathFormat(data)
    /\ Cardinality(Dashes(data)) > 3
    /\ output /= data

-----------------------------------------------------------------------------
\* estimate_message_count_from_size (utils.rs 63-67).  A file size is a u64
\* and does not fit the integers of the checker: a wide number is the
\* sequence of its 16-bit digits, least significant first, without leading
\* zeros.  f64 values that are whole numbers are wide numbers too.

Pow2(n) == 2 ^ n

RECURSIVE WideNorm(_)
WideNorm(x) ==
    IF x /= << >> /\ x[Len(x)] = 0 THEN WideNorm(SubSeq(x, 1, Len(x) - 1)) ELSE x

\* The number of significant bits of a wide number (0 for zero).
WideBits(x) ==
    IF x = << >> THEN 0
    ELSE 16 * (Len(x) - 1)
         + (CHOOSE b \in 1..16 : x[Len(x)] < Pow2(b) /\ x[Len(x)] >= Pow2(b - 1))

RECURSIVE WideAdd(_, _)
WideAdd(x, n) ==
    IF n = 0 THEN x
    ELSE IF x = << >> THEN <<n>>
    ELSE <<(x[1] + n) % HalfWord>> \o WideAdd(Tail(x), (x[1] + n) \div HalfWord)

\* Long division of x by a divisor below 2^15, from the most significant digit.
RECURSIVE WideDivLoop(_, _, _, _, _)
WideDivLoop(x, d, i, rem, quot) ==
    IF i = 0 THEN [quot |-> WideNorm(quot), rem |-> rem]
    ELSE LET cur == rem * HalfWord + x[i]
         IN  WideDivLoop(x, d, i - 1, cur % d, <<cur \div d>> \o quot)

WideDiv(x, d) == WideDivLoop(x, d, Len(x), 0, << >>)

RECURSIVE WideLess(_, _)
WideLess(a, b) ==
    IF Len(a) /= Len(b) THEN Len(a) < Len(b)
    ELSE IF a = << >> THEN FALSE
    ELSE IF a[Len(a)] /= b[Len(b)] THEN a[Len(a)] < b[Len(b)]
    ELSE WideLess(SubSeq(a, 1, Len(a) - 1), SubSeq(b, 1, Len(b) - 1))

WideLeq(a, b) == a = b \/ WideLess(a, b)

MantissaBits == 53
AVERAGE_MESSAGE_SIZE_BYTES == 1000

\* x rounded to a multiple of 2^shift (shift below 16), ties to the even
\* multiple; more_below tells that the exact value exceeds x by a fraction.
RoundToEven(x, shift, more_below) ==
    LET low  == x[1] % Pow2(shift)
        half == Pow2(shift - 1)
        odd  == (x[1] \div Pow2(shift)) % 2 = 1
        base == [x EXCEPT ![1] = x[1] - low]
        up   == low > half \/ (low = half /\ (more_below \/ odd))
    IN  IF up THEN WideAdd(WideAdd(base, half), half) ELSE WideNorm(base)

\* `file_size as f64`: the nearest value with a 53-bit mantissa.
U64AsF64(file_size) ==
    IF WideBits(file_size) <= MantissaBits THEN file_size
    ELSE RoundToEven(file_size, WideBits(file_size) - MantissaBits, FALSE)

\* `(x / 1000.0).ceil()` for a whole f64 x.  The division is rounded to a
\* 53-bit mantissa before ceil sees it: with q the whole part and r the
\* remainder of the exact quotient, the rounded quotient is q itself when
\* r/1000 is below half a unit in the last place of q (or equal to it, q
\* having an even mantissa), and the fraction is lost.
DivideAndCeil(x) ==
    LET d    == WideDiv(x, AVERAGE_MESSAGE_SIZE_BYTES)
        bits == WideBits(d.quot)
        frac == MantissaBits - bits
    IN  IF d.rem = 0 THEN d.quot
        ELSE IF bits > MantissaBits
        THEN RoundToEven(d.quot, bits - MantissaBits, TRUE)
        ELSE IF frac < 10
                /\ \/ d.rem * Pow2(frac + 1) < AVERAGE_MESSAGE_SIZE_BYTES
                   \/ /\ d.rem * Pow2(frac + 1) = AVERAGE_MESSAGE_SIZE_BYTES
                      /\ (frac > 0 \/ d.quot[1] % 2 = 0)
        THEN d.quot
        ELSE WideAdd(d.quot, 1)

\* `as usize` saturates at the greatest usize of the target.
AsUsize(x, usize_bits) ==
    IF WideBits(x) > usize_bits THEN [i \in 1..(usize_bits \div 16) |-> HalfWord - 1] ELSE x

estimate_message_count_from_size(file_size, usize_bits) ==
    LET count == AsUsize(DivideAndCeil(U64AsF64(file_size)), usize_bits)
    IN  IF count = << >> THEN <<1>> ELSE count

\* The function applied to two sizes by the same build.
EstimateMessageCount ==
    /\ pc = "start"
    /\ pc' = "estimated"
    /\ \E usize_bits \in {32, 64} :
           output' = [i \in 1..2 |-> estimate_message_count_from_size(data[i], usize_bits)]
    /\ UNCHANGED <<data, start, memchr_pos, ranges, walkVars, log_entry, now, new_uuid, message>>

NextEstimate == EstimateMessageCount

\* 0, 1, 999, 1000, 1001, 2500, 9999999 (the greatest size of proptest's
\* file_size), 2^32 - 1, 4294967295001, 2^53, 2^53 + 9, 140946420388433008,
\* 2^63 + 7169 and 2^64 - 1.
FileSizes ==
    { << >>, <<1>>, <<999>>, <<1000>>, <<1001>>, <<2500>>, <<38527, 152>>,
      <<65535, 65535>>, <<64537, 65535, 999>>, <<0, 0, 0, 32>>, <<9, 0, 0, 32>>,
      <<21808, 27284, 48376, 500>>, <<7169, 0, 0, 32768>>,
      <<65535, 65535, 65535, 65535>> }

InitEstimate ==
    /\ pc = "start"
    /\ data \in FileSizes \X FileSizes
    /\ start = Idle /\ memchr_pos = Idle /\ ranges = Idle
    /\ IdleWalk
    /\ IdleEntry

SpecEstimate == InitEstimate /\ [][NextEstimate]_vars

\* The least whole number that is at least size / 1000, computed exactly.
ExactCeiling(size) ==
    LET d == WideDiv(size, 1000) IN IF d.rem = 0 THEN d.quot ELSE WideAdd(d.quot, 1)

\* C23: the estimate never decreases when the size grows, is at least 1, is 1
\* for size 0 and is the ceiling of size / 1000 for every size above 0.
C23_EstimateIsCeiling ==
    pc = "estimated" =>
        /\ WideLeq(data[1], data[2]) => WideLeq(output[1], output[2])
        /\ \A i \in 1..2 :
               /\ WideLeq(<<1>>, output[i])
               /\ data[i] = << >> => output[i] = <<1>>
               /\ data[i] /= << >> => output[i] = ExactCeiling(data[i])

-----------------------------------------------------------------------------
\* process_session_file_for_edits on a file of one record (edits.rs 55-166):
\* every combination of a tool result and a tool invocation on one line.

ProcessRecord ==
    /\ pc = "start"
    /\ pc' = "processed"
    /\ result' = ProcessSessionFileForEdits(SessionFile(TRUE, <<EntryLine(log_entry)>>))
    /\ UNCHANGED <<tree, args, windows, session_files, file_results, scanVars, entryVars>>

NextRecord == ProcessRecord

\* The members a tool result may hold, each absent or present.
ResultMembers ==
    [type : {None, Some(JStr(CreateType)), Some(JStr(<<"u">>))},
     filePath : {None, Some(JStr(<<"/", "x">>))},
     content : {None, Some(JStr(<<"a">>))},
     edits : {None, Some(JArr(<< >>)),
              Some(JArr(<<JObj(("old_string" :> JStr(<<"a">>)) @@ ("new_string" :> JStr(<<"b">>)))>>))},
     oldString : {None, Some(JStr(<<"a">>))},
     originalFile : {None, Some(JStr(<<"a">>))}]

\* The JSON object with the present members; newString comes with oldString.
ResultObject(m) ==
    JObj([k \in {k \in DOMAIN m : IsSome(m[k])} |-> Unwrap(m[k])] @@
         (IF IsSome(m.oldString) THEN "newString" :> JStr(<<"b">>) ELSE NoFields))

ToolInvocations ==
    {None,
     Some(JObj(("name" :> JStr(WriteTool)) @@
               ("input" :> JObj(("file_path" :> JStr(<<"/", "x">>)) @@ ("content" :> JStr(<<"a">>)))))),
     Some(JObj(("name" :> JStr(WriteTool)) @@
               ("input" :> JObj("file_path" :> JStr(<<"/", "x">>))))),
     Some(JObj(("name" :> JStr(<<"E">>)) @@
               ("input" :> JObj(("file_path" :> JStr(<<"/", "x">>)) @@ ("content" :> JStr(<<"a">>))))))}

Records ==
    {[BlankEntry("user") EXCEPT !.timestamp = Some(<<"1">>), !.tool_use_result = r, !.tool_use = t] :
        r \in {None} \cup {Some(ResultObject(m)) : m \in ResultMembers}, t \in ToolInvocations}

InitRecord ==
    /\ pc = "start"
    /\ log_entry \in Records
    /\ now = Idle /\ new_uuid = Idle /\ message = Idle /\ output = Idle
    /\ IdleScan
    /\ IdleWalk

SpecRecord == InitRecord /\ [][NextRecord]_vars

EditsOfType(operation_type) ==
    {i \in 1..Len(Unwrap(result).edits) : Unwrap(result).edits[i].operation_type = operation_type}

\* C24: one log record contributes at most one write-type edit and at most one
\* edit-type edit, whatever its tool result and its tool invocation hold.
C24_OneEditPerType ==
    pc = "processed" =>
        /\ Cardinality(EditsOfType("write")) <= 1
        /\ Cardinality(EditsOfType("edit")) <= 1

-----------------------------------------------------------------------------
\* Tool counters of the summaries (stats.rs 232-262 and 595-624): the map from
\* tool name to (usage, success) after the messages of a session.

ToolUseType == <<"t", "o", "o", "l", "_", "u", "s", "e">>

\* tool_usage_map.entry(name).or_insert((0, 0)) with both additions applied.
AddToolUse(tool_usage_map, name, usage, success) ==
    IF name \in DOMAIN tool_usage_map
    THEN [tool_usage_map EXCEPT ![name] = <<@[1] + usage, @[2] + success>>]
    ELSE tool_usage_map @@ (name :> <<usage, success>>)

\* The loop over the items of an assistant message's content array.
RECURSIVE ContentToolUses(_, _, _)
ContentToolUses(tool_usage_map, content_array, i) ==
    IF i > Len(content_array) THEN tool_usage_map
    ELSE LET item == content_array[i]
             name == AsStr(Get(item, "name"))
         IN  ContentToolUses(
                IF AsStr(Get(item, "type")) = Some(ToolUseType) /\ IsSome(name)
                THEN AddToolUse(tool_usage_map, Unwrap(name), 1, 1)
                ELSE tool_usage_map,
                content_array, i + 1)

\* A top-level invocation that counts as a success whenever no error is flagged.
TopLevelSuccess_WithoutResult(m) ==
    ~(IsSome(m.tool_use_result)
      /\ IsSome(Get(Unwrap(m.tool_use_result), "is_error"))
      /\ Unwrap(Get(Unwrap(m.tool_use_result), "is_error")) = JBool(TRUE))

\* if let Some(result) = &message.tool_use_result { if !is_error { ... } }, with
\* is_error = result.get("is_error").and_then(|v| v.as_bool()).unwrap_or(false)
TopLevelSuccess(m) ==
    /\ IsSome(m.tool_use_result)
    /\ LET is_error == Get(Unwrap(m.tool_use_result), "is_error")
       IN  ~(IsSome(is_error) /\ Unwrap(is_error).kind = "bool" /\ Unwrap(is_error).bool)

\* The two blocks of the message loop that count tools.
CountToolUse(tool_usage_map, m) ==
    LET from_content ==
            IF m.message_type = "assistant" /\ IsSome(AsArray(m.content))
            THEN ContentToolUses(tool_usage_map, Unwrap(AsArray(m.content)), 1)
            ELSE tool_usage_map
        name == AsStr(GetIn(m.tool_use, "name"))
    IN  IF IsSome(name)
        THEN AddToolUse(from_content, Unwrap(name), 1, IF TopLevelSuccess(m) THEN 1 ELSE 0)
        ELSE from_content

RECURSIVE ToolUsageMap(_, _)
ToolUsageMap(tool_usage_map, messages) ==
    IF messages = << >> THEN tool_usage_map
    ELSE ToolUsageMap(CountToolUse(tool_usage_map, messages[1]), Tail(messages))

ProjectToolUsage ==
    /\ pc = "start"
    /\ pc' = "project"
    /\ output' = ToolUsageMap(<< >>, message)
    /\ UNCHANGED <<log_entry, now, new_uuid, message, scanVars, walkVars>>

GlobalToolUsage ==
    /\ pc = "start"
    /\ pc' = "global"
    /\ output' = ToolUsageMap(<< >>, message)
    /\ UNCHANGED <<log_entry, now, new_uuid, message, scanVars, walkVars>>

NextTools == ProjectToolUsage \/ GlobalToolUsage

MaxToolMessages == 1
ReadTool == <<"R">>
BashTool == <<"B">>

ToolContents ==
    {None,
     Some(JArr(<<JObj(("type" :> JStr(ToolUseType)) @@ ("name" :> JStr(ReadTool)))>>)),
     Some(JArr(<<JObj(("type" :> JStr(ToolUseType)) @@ ("name" :> JStr(ReadTool))),
                 JObj(("type" :> JStr(<<"t">>)) @@ ("name" :> JStr(ReadTool))),
                 JObj(("type" :> JStr(ToolUseType)) @@ ("name" :> JStr(BashTool)))>>))}

TopLevelToolUses ==
    {None, Some(JObj("name" :> JStr(ReadTool))), Some(JObj("id" :> JStr(<<"1">>)))}

ToolUseResults ==
    {None, Some(JObj(NoFields)), Some(JObj("is_error" :> JBool(TRUE))),
     Some(JObj("is_error" :> JBool(FALSE))), Some(JObj("is_error" :> JStr(<<"y">>)))}

ToolMessages ==
    {ClaudeMessage("u0", "s1", <<"1">>, type, content, tool_use, tool_result, None, Some(type)) :
        type \in {"assistant", "user"}, content \in ToolContents,
        tool_use \in TopLevelToolUses, tool_result \in ToolUseResults}

InitTools ==
    /\ pc = "start"
    /\ message \in SeqsUpTo(ToolMessages, MaxToolMessages)
    /\ log_entry = Idle /\ now = Idle /\ new_uuid = Idle /\ output = Idle
    /\ IdleScan
    /\ IdleWalk

SpecTools == InitTools /\ [][NextTools]_vars

Counted == pc \in {"project", "global"}

\* The messages with a top-level invocation naming tool T.
TopLevelUses(T) ==
    {i \in 1..Len(message) : AsStr(GetIn(message[i].tool_use, "name")) = Some(T)}

\* The tool_use items naming T in the content arrays of assistant messages.
ContentUses(T) ==
    {p \in (1..Len(message)) \X (1..3) :
        /\ message[p[1]].message_type = "assistant"
        /\ IsSome(AsArray(message[p[1]].content))
        /\ p[2] <= Len(Unwrap(AsArray(message[p[1]].content)))
        /\ LET item == Unwrap(AsArray(message[p[1]].content))[p[2]]
           IN  AsStr(Get(item, "type")) = Some(ToolUseType) /\ AsStr(Get(item, "name")) = Some(T)}

ExplicitError(m) == GetIn(m.tool_use_result, "is_error") = Some(JBool(TRUE))

Counters(T) == IF T \in DOMAIN output THEN output[T] ELSE <<0, 0>>

\* C25 as stated: a top-level invocation of T adds one to T's usage, and one to
\* T's success exactly when the message has no tool result with is_error = true,
\* with or without a tool result; a content item adds one to both.
C25_SuccessUnlessError ==
    Counted =>
        \A T \in {ReadTool, BashTool} :
            /\ Counters(T)[1] = Cardinality(TopLevelUses(T)) + Cardinality(ContentUses(T))
            /\ Counters(T)[2] = Cardinality({i \in TopLevelUses(T) : ~ExplicitError(message[i])})
                                + Cardinality(ContentUses(T))

\* C25 as amended: a top-level invocation of T adds one to T's usage, and one to
\* T's success exactly when the message carries a tool result whose is_error is
\* not true; a content item adds one to both.
C25_SuccessNeedsResult ==
    Counted =>
        \A T \in {ReadTool, BashTool} :
            /\ Counters(T)[1] = Cardinality(TopLevelUses(T)) + Cardinality(ContentUses(T))
            /\ Counters(T)[2] = Cardinality({i \in TopLevelUses(T) :
                                                /\ IsSome(message[i].tool_use_result)
                                                /\ ~ExplicitError(message[i])})
                                + Cardinality(ContentUses(T))

\* An assistant message that invokes Read at top level without a tool result
\* and again in its content: usage 2, success 1.
C25_Witness ==
    /\ Counted
    /\ Len(message) = 1
    /\ message[1].tool_use_result = None
    /\ TopLevelUses(ReadTool) = {1}
    /\ ContentUses(ReadTool) /= {}
    /\ Counters(ReadTool) = <<2, 1>>

-----------------------------------------------------------------------------
\* The totalTokens fallback of extract_token_usage (stats.rs 65-73), under SpecUsage.

\* v is a JSON number that as_u64 accepts.
IsUnsigned(o) == IsSome(o) /\ Unwrap(o).kind = "number" /\ Unwrap(o).num >= 0

\* The usage object inside an object content, and field f resolved from it or
\* from the tool result's usage object.
ContentUsageObject ==
    IF IsSome(message.content) /\ Unwrap(message.content).kind = "object"
    THEN Get(Unwrap(message.content), "usage") ELSE None

ResolvedBelowMessage(f) ==
    \/ IsUnsigned(GetIn(ContentUsageObject, f))
    \/ IsUnsigned(GetIn(ToolUsageObject, f))

ResolvedByMessage(f) == IsSome(message.usage) /\ IsSome(Unwrap(message.usage)[f])

\* The message without the totalTokens member of its tool result.
WithoutTotalTokens ==
    IF IsSome(message.tool_use_result)
    THEN [message EXCEPT !.tool_use_result =
            Some(JObj([k \in DOMAIN Unwrap(@).fields \ {"totalTokens"} |-> Unwrap(@).fields[k]]))]
    ELSE message

TotalTokensValue == GetIn(message.tool_use_result, "totalTokens")

FallbackField == IF message.message_type = "assistant" THEN "output_tokens" ELSE "input_tokens"

\* The usage with the fallback applied to what the other sources give.
FallbackApplied(value) == [ExtractTokenUsage(WithoutTotalTokens) EXCEPT ![FallbackField] = Some(value)]

-----------------------------------------------------------------------------
\* Two calls of restore_file that run at the same time on two targets of one
\* directory, from the choice of the temporary path on (edits.rs 318-328,
\* fs_utils.rs 9-27).  Both paths passed the validation and the directory
\* exists.  args, pc and result hold one entry per call; tree maps each path
\* of the directory to the content of the file there, if any.  No operation
\* fails for a reason outside the two calls.

TmpRestore == <<"t", "m", "p", ".", "r", "e", "s", "t", "o", "r", "e">>

\* The position of the last character c of s, 0 if there is none.
LastIndexOf(s, c) ==
    IF \E i \in 1..Len(s) : s[i] = c
    THEN CHOOSE i \in 1..Len(s) : s[i] = c /\ \A j \in (i + 1)..Len(s) : s[j] /= c
    ELSE 0

\* A temporary path made from the whole file name.
WithExtension_Appended(path, extension) == path \o <<".">> \o extension

\* Path::with_extension: the extension replaces what follows the last dot of
\* the file name (a dot at the start of the name is part of the stem).
WithExtension(path, extension) ==
    LET name_start == LastIndexOf(path, "/") + 1
        dot        == LastIndexOf(path, ".")
        stem_end   == IF dot > name_start THEN dot - 1 ELSE Len(path)
    IN  SubSeq(path, 1, stem_end) \o <<".">> \o extension

TempPath(call) == WithExtension(call.file_path, TmpRestore)

Calls == {1, 2}

\* fs::write(&temp_path, &content)
WriteTempOf(i) ==
    /\ pc[i] = "write"
    /\ tree' = [tree EXCEPT ![TempPath(args[i])] = Some(args[i].content)]
    /\ pc' = [pc EXCEPT ![i] = IF windows THEN "remove_target" ELSE "rename"]
    /\ UNCHANGED <<args, windows, result, session_files, file_results, scanVars, entryVars>>

\* atomic_rename on Windows: if to.exists() { fs::remove_file(to)?; }
RemoveTargetOf(i) ==
    /\ pc[i] = "remove_target"
    /\ tree' = [tree EXCEPT ![args[i].file_path] = None]
    /\ pc' = [pc EXCEPT ![i] = "rename"]
    /\ UNCHANGED <<args, windows, result, session_files, file_results, scanVars, entryVars>>

\* fs::rename(from, to): fails when `from` does not exist; remove_file(from)
\* then fails as well and is ignored.
RenameOf(i) ==
    /\ pc[i] = "rename"
    /\ IF IsSome(tree[TempPath(args[i])])
       THEN /\ tree' = [tree EXCEPT ![args[i].file_path] = tree[TempPath(args[i])],
                                    ![TempPath(args[i])] = None]
            /\ result' = [result EXCEPT ![i] = Ok("unit")]
       ELSE /\ result' = [result EXCEPT ![i] = Err("Failed to rename")]
            /\ UNCHANGED tree
    /\ pc' = [pc EXCEPT ![i] = "done"]
    /\ UNCHANGED <<args, windows, session_files, file_results, scanVars, entryVars>>

WriteTemps == \E i \in Calls : WriteTempOf(i)
RemoveTargets == \E i \in Calls : RemoveTargetOf(i)
Renames == \E i \in Calls : RenameOf(i)

NextConcurrent == WriteTemps \/ RemoveTargets \/ Renames

\* /foo.txt, /foo.rs and /bar.txt, in short.
Targets == {<<"/", "f", ".", "t">>, <<"/", "f", ".", "r">>, <<"/", "b", ".", "t">>}
RestoredContents == {<<"x">>, <<"y">>}

InitConcurrent ==
    /\ pc = [i \in Calls |-> "write"]
    /\ \E p1, p2 \in Targets, c1, c2 \in RestoredContents :
          /\ p1 /= p2
          /\ args = <<[file_path |-> p1, content |-> c1], [file_path |-> p2, content |-> c2]>>
    /\ \E existing \in SUBSET Targets :
          tree = [p \in Targets \cup {WithExtension(t, TmpRestore) : t \in Targets} |->
                     IF p \in existing THEN Some(<<"p">>) ELSE None]
    /\ windows \in BOOLEAN
    /\ result = [i \in Calls |-> Idle]
    /\ session_files = Idle /\ file_results = Idle
    /\ IdleScan
    /\ IdleEntry

SpecConcurrent == InitConcurrent /\ [][NextConcurrent]_vars

\* C27: of two concurrent calls on different targets of one directory, each
\* call that returns Ok leaves its target with exactly its content, and no
\* call fails because of the other.
C27_CallsIndependent ==
    \A i \in Calls :
        pc[i] = "done" =>
            /\ result[i].ok
            /\ tree[args[i].file_path] = Some(args[i].content)

-----------------------------------------------------------------------------
\* The token and message counts of the summaries with their integer widths
\* (stats.rs 172-231, 296-312, 327-339 and 505-583, 709-721).  u64 sums are
\* wide numbers; the u32 sum of the project summary wraps or panics.

DigitValue(c) == CHOOSE n \in 0..9 : ToString(n) = c

\* The number a string of digits denotes.
RECURSIVE NumberOf(_)
NumberOf(s) ==
    IF s = << >> THEN 0
    ELSE 10 * NumberOf(SubSeq(s, 1, Len(s) - 1)) + DigitValue(s[Len(s)])

\* timestamp.weekday().num_days_from_sunday() for a date YYYY-MM-DD: the days
\* since 1970-01-01, a Thursday, counted through the civil calendar.
Weekday(date) ==
    LET year  == NumberOf(SubSeq(date, 1, 4))
        month == NumberOf(SubSeq(date, 6, 7))
        day   == NumberOf(SubSeq(date, 9, 10))
        y     == IF month <= 2 THEN year - 1 ELSE year
        era   == y \div 400
        yoe   == y - era * 400
        doy   == (153 * (IF month > 2 THEN month - 3 ELSE month + 9) + 2) \div 5 + day - 1
        doe   == yoe * 365 + yoe \div 4 - yoe \div 100 + doy
        days  == era * 146097 + doe - 719468
    IN  (days + 4) % 7

\* timestamp.hour()
HourOf(time) == NumberOf(SubSeq(time, 1, 2))

U32ToWide(u) == WideNorm(<<u.lo, u.hi>>)

\* a + b on u64 values far below the u64 maximum.
RECURSIVE WideSum(_, _, _)
WideSum(a, b, carry) ==
    IF a = << >> /\ b = << >>
    THEN IF carry = 0 THEN << >> ELSE <<carry>>
    ELSE LET x == (IF a = << >> THEN 0 ELSE a[1]) + (IF b = << >> THEN 0 ELSE b[1]) + carry
         IN  <<x % HalfWord>> \o WideSum(IF a = << >> THEN a ELSE Tail(a),
                                         IF b = << >> THEN b ELSE Tail(b), x \div HalfWord)

\* usage.field.unwrap_or(0) as u64
FieldAsU64(usage, field) == U32ToWide(ToU32(Tokens(usage, field)))

\* The per-message token count of the global summary: each counter is cast to
\* u64 before the additions.
TokensAsU64(usage) ==
    WideSum(WideSum(FieldAsU64(usage, "input_tokens"), FieldAsU64(usage, "output_tokens"), 0),
            WideSum(FieldAsU64(usage, "cache_creation_input_tokens"),
                    FieldAsU64(usage, "cache_read_input_tokens"), 0), 0)

\* The per-message token count of the project summary: three additions on
\* u32, the wrapped sum and whether one of them overflowed.
TokensInU32(usage) ==
    LET s1 == AddU32(ToU32(Tokens(usage, "input_tokens")), ToU32(Tokens(usage, "output_tokens")))
        s2 == AddU32(s1.sum, ToU32(Tokens(usage, "cache_creation_input_tokens")))
        s3 == AddU32(s2.sum, ToU32(Tokens(usage, "cache_read_input_tokens")))
    IN  [sum |-> s3.sum, overflow |-> s1.overflow \/ s2.overflow \/ s3.overflow]

\* A session_dates that keeps every date pushed.
InsertDate_EveryTime(session_dates, date) == Append(session_dates, date)

\* session_dates.insert(date) on the HashSet, held as a list of distinct dates.
InsertDate(session_dates, date) ==
    IF date \in Range(session_dates) THEN session_dates ELSE Append(session_dates, date)

NoDay(date) ==
    [date |-> date, total_tokens |-> << >>, input_tokens |-> << >>, output_tokens |-> << >>,
     message_count |-> 0, session_count |-> 0, active_hours |-> 0]

\* map.entry(key).or_insert(initial)
Entry(map, key, initial) == IF key \in DOMAIN map THEN map[key] ELSE initial

Put(map, key, value) == [k \in DOMAIN map \cup {key} |-> IF k = key THEN value ELSE map[k]]

\* The body of the line loop for an accepted message; project tells which of
\* the two summaries runs.  session holds session_dates and the dates of the
\* session's timestamps.
AggregateMessage(acc, m, project) ==
    LET parsed == ParseFromRfc3339(m.timestamp)
        date   == Unwrap(parsed).date
        cell   == <<HourOf(Unwrap(parsed).time), Weekday(date)>>
        usage  == ExtractTokenUsage(m)
        tokens == IF project THEN U32ToWide(TokensInU32(usage).sum) ELSE TokensAsU64(usage)
    IN  IF IsNone(parsed) THEN [acc EXCEPT !.total_messages = @ + 1]
        ELSE [acc EXCEPT
                !.total_messages = @ + 1,
                !.session = [dates |-> IF project THEN InsertDate(@.dates, date) ELSE @.dates,
                             timestamps |-> Append(@.timestamps, date)],
                !.overflowed = @ \/ (project /\ TokensInU32(usage).overflow),
                !.total_tokens = IF project THEN @ ELSE WideSum(@, tokens, 0),
                !.activity_map = Put(@, cell, <<Entry(@, cell, <<0, << >> >>)[1] + 1,
                                                WideSum(Entry(@, cell, <<0, << >> >>)[2], tokens, 0)>>),
                !.daily_stats_map = Put(@, date,
                    [Entry(@, date, NoDay(date)) EXCEPT
                        !.total_tokens = WideSum(@, tokens, 0),
                        !.input_tokens = WideSum(@, FieldAsU64(usage, "input_tokens"), 0),
                        !.output_tokens = WideSum(@, FieldAsU64(usage, "output_tokens"), 0),
                        !.message_count = @ + 1]),
                !.token_distribution =
                    [f \in TokenFields |-> WideSum(@[f], FieldAsU64(usage, f), 0)]]

RECURSIVE AggregateLines(_, _, _, _)
AggregateLines(acc, lines, i, project) ==
    IF i > Len(lines) THEN acc
    ELSE AggregateLines(
            IF LineMessage(lines[i]).ok
            THEN AggregateMessage(acc, LineMessage(lines[i]).value, project)
            ELSE acc,
            lines, i + 1, project)

\* After the lines of a session the project summary inserts the date of the
\* session's earliest timestamp once more.
EndSession(session, project) ==
    IF project /\ session.timestamps /= << >>
    THEN [session EXCEPT !.dates =
            InsertDate(@, CHOOSE d \in Range(session.timestamps) :
                             \A e \in Range(session.timestamps) : ~StrLess(e, d))]
    ELSE session

\* The loop over the session files.
RECURSIVE AggregateFiles(_, _, _)
AggregateFiles(acc, files, project) ==
    IF files = << >> THEN acc
    ELSE AggregateFiles(
            [AggregateLines([acc EXCEPT !.total_sessions = @ + 1,
                                        !.session = [@ EXCEPT !.timestamps = << >>]],
                            files[1].lines, 1, project)
                EXCEPT !.session = EndSession(@, project)],
            Tail(files), project)

NoAggregate ==
    [total_sessions |-> 0, total_messages |-> 0, total_tokens |-> << >>,
     token_distribution |-> [f \in TokenFields |-> << >>],
     daily_stats_map |-> << >>, activity_map |-> << >>,
     session |-> [dates |-> << >>, timestamps |-> << >>], overflowed |-> FALSE]

\* activity_map.into_iter().map(..).collect(): the cells in no fixed order.
ActivityHeatmap(activity_map) ==
    {[hour |-> c[1], day |-> c[2], activity_count |-> activity_map[c][1],
      tokens_used |-> activity_map[c][2]] : c \in DOMAIN activity_map}

DistributionTotal(dist) ==
    WideSum(WideSum(dist["input_tokens"], dist["output_tokens"], 0),
            WideSum(dist["cache_creation_input_tokens"], dist["cache_read_input_tokens"], 0), 0)

\* session_dates.iter().filter(|&d| d == date).count()
SessionCount(session_dates, date) ==
    Cardinality({i \in 1..Len(session_dates) : session_dates[i] = date})

ProjectAggregate ==
    /\ pc = "start"
    /\ pc' = "project"
    /\ \E overflow_checks \in BOOLEAN, acc \in {AggregateFiles(NoAggregate, tree, TRUE)} :
          LET days == {[acc.daily_stats_map[d] EXCEPT
                            !.session_count = SessionCount(acc.session.dates, d),
                            !.active_hours = ActiveHours(acc.daily_stats_map[d].message_count)] :
                         d \in DOMAIN acc.daily_stats_map}
          IN  result' = IF overflow_checks /\ acc.overflowed THEN Panic
                        ELSE Ok([total_sessions |-> acc.total_sessions,
                                 total_messages |-> acc.total_messages,
                                 total_tokens |-> DistributionTotal(acc.token_distribution),
                                 token_distribution |-> acc.token_distribution,
                                 daily_stats |-> SortByDate(days),
                                 activity_heatmap |-> ActivityHeatmap(acc.activity_map)])
    /\ UNCHANGED <<tree, args, windows, session_files, file_results, scanVars, entryVars>>

GlobalAggregate ==
    /\ pc = "start"
    /\ pc' = "global"
    /\ \E acc \in {AggregateFiles(NoAggregate, tree, FALSE)} :
          result' = Ok([total_sessions |-> acc.total_sessions,
                        total_messages |-> acc.total_messages,
                        total_tokens |-> acc.total_tokens,
                        token_distribution |-> acc.token_distribution,
                        daily_stats |-> SortByDate({acc.daily_stats_map[d] :
                                                       d \in DOMAIN acc.daily_stats_map}),
                        activity_heatmap |-> ActivityHeatmap(acc.activity_map)])
    /\ UNCHANGED <<tree, args, windows, session_files, file_results, scanVars, entryVars>>

NextAggregate == ProjectAggregate \/ GlobalAggregate

MaxAggregateLines == 2

AggregateTimestamps ==
    {<<"2", "0", "2", "5", "-", "0", "6", "-", "2", "5", "T", "1", "0", ":", "0", "0", ":", "0", "0", "Z">>,
     <<"2", "0", "2", "5", "-", "0", "6", "-", "2", "6", "T", "1", "1", ":", "0", "0", ":", "0", "0", "Z">>,
     <<"1">>}

\* Message-level usage: absent, small counters, three counters at 2^31 - 1.
AggregateUsages ==
    {None, Some(TokenUsage(Some(1), Some(2), None, Some(3), None)),
     Some(TokenUsage(Some(LargeCount), Some(LargeCount), Some(LargeCount), None, None))}

AggregateLinesOf ==
    {EntryLine([BlankEntry("assistant") EXCEPT
                    !.session_id = Some("s1"), !.timestamp = Some(ts),
                    !.message = Some(MessageContent("assistant", JStr(<<"a">>), usage))]) :
        ts \in AggregateTimestamps, usage \in AggregateUsages}

InitAggregate ==
    /\ pc = "start"
    /\ tree \in Trees(AggregateLinesOf, MaxAggregateLines)
    /\ args = Idle /\ windows = Idle /\ session_files = Idle
    /\ file_results = Idle /\ result = Idle
    /\ now = ClockReading
    /\ new_uuid = "u1"
    /\ log_entry = Idle /\ message = Idle /\ output = Idle
    /\ IdleScan

SpecAggregate == InitAggregate /\ [][NextAggregate]_vars

Aggregated == pc \in {"project", "global"} /\ result.ok

RECURSIVE WideTotal(_, _)
WideTotal(S, f) ==
    IF S = {} THEN << >>
    ELSE LET x == CHOOSE y \in S : TRUE IN WideSum(f[x], WideTotal(S \ {x}, f), 0)

DailyStats == Range(result.value.daily_stats)
Heatmap == result.value.activity_heatmap

\* C28: in both summaries total_tokens, the sum of the four fields of
\* token_distribution, the sum of the daily total_tokens and the sum of the
\* heatmap's tokens_used are equal, and the daily message counts sum to the
\* heatmap's activity counts and to at most total_messages.
C28_TokenViewsAgree ==
    Aggregated =>
        /\ result.value.total_tokens = DistributionTotal(result.value.token_distribution)
        /\ result.value.total_tokens = WideTotal(DailyStats, [d \in DailyStats |-> d.total_tokens])
        /\ result.value.total_tokens = WideTotal(Heatmap, [c \in Heatmap |-> c.tokens_used])
        /\ SumOver(DailyStats, [d \in DailyStats |-> d.message_count])
              = SumOver(Heatmap, [c \in Heatmap |-> c.activity_count])
        /\ SumOver(DailyStats, [d \in DailyStats |-> d.message_count]) <= result.value.total_messages

\* C29: every entry of the project summary's daily_stats has session_count 1,
\* however many session files have messages on its date.
C29_SessionCountIsOne ==
    (pc = "project" /\ result.ok) => \A d \in DailyStats : d.session_count = 1

\* Two session files with a message each on 2025-06-25: one entry, counted once.
C29_Witness ==
    /\ pc = "project"
    /\ result.ok
    /\ Len(tree) = 2
    /\ \A f \in 1..2 :
          /\ Len(tree[f].lines) = 1
          /\ Len(Unwrap(tree[f].lines[1].entry.timestamp)) = 20
          /\ SubSeq(Unwrap(tree[f].lines[1].entry.timestamp), 1, 10)
                = <<"2", "0", "2", "5", "-", "0", "6", "-", "2", "5">>
    /\ Len(result.value.daily_stats) = 1
    /\ result.value.daily_stats[1].message_count = 2
    /\ result.value.daily_stats[1].session_count = 1

\* The source extract_token_usage takes field f from, for a message without
\* message-level usage: the tool result's usage object, else the content's,
\* else totalTokens for the field the fallback credits.
CounterSource(f) ==
    IF IsUnsigned(GetIn(ToolUsageObject, f)) THEN GetIn(ToolUsageObject, f)
    ELSE IF IsUnsigned(GetIn(ContentUsageObject, f)) THEN GetIn(ContentUsageObject, f)
    ELSE IF /\ f = FallbackField
            /\ IsUnsigned(TotalTokensValue)
            /\ \A g \in {"input_tokens", "output_tokens"} : ~ResolvedBelowMessage(g)
    THEN TotalTokensValue
    ELSE None

\* C30: every counter extract_token_usage takes from a content-level usage
\* object, a tool-result usage object or totalTokens equals the unsigned
\* integer of the source exactly, never its remainder modulo 2^32.
C30_CountersExact ==
    (pc = "done" /\ IsNone(message.usage)) =>
        \A f \in TokenFields :
            IsSome(CounterSource(f)) =>
                /\ output[f] = Some(Unwrap(CounterSource(f)).num)
                /\ HighWord(Unwrap(CounterSource(f))) = 0

=============================================================================
